---- MODULE Spec2Model ----
(***************************************************************************)
(* A model of the api-foward route engine (src/index.js and the two later  *)
(* variants of the same file in src/unnamed/part_000): loadConfig, the     *)
(* wildcard route handler, handleProxyRequest, and the /config endpoints. *)
(*                                                                         *)
(* JavaScript strings are sequences of one-character strings, so that      *)
(* split, the image regular expression, percent-encoding and the URL       *)
(* parser are computed and not assumed.  JavaScript values are records    *)
(* tagged with their typeof-like kind.                                     *)
(***************************************************************************)
EXTENDS Integers, Sequences, FiniteSets, TLC

(***************************************************************************)
(* Characters and strings                                                  *)
(***************************************************************************)
UpperChars == <<"A","B","C","D","E","F","G","H","I","J","K","L","M",
                "N","O","P","Q","R","S","T","U","V","W","X","Y","Z">>
LowerChars == <<"a","b","c","d","e","f","g","h","i","j","k","l","m",
                "n","o","p","q","r","s","t","u","v","w","x","y","z">>
DigitChars == <<"0","1","2","3","4","5","6","7","8","9">>

Range(s) == { s[i] : i \in 1..Len(s) }

IsUpper(c) == c \in Range(UpperChars)
IsLower(c) == c \in Range(LowerChars)
IsDigit(c) == c \in Range(DigitChars)
IsAlnum(c) == IsUpper(c) \/ IsLower(c) \/ IsDigit(c)

\* String.prototype.toLowerCase on one character (the /i flag, host and scheme).
LowerChar(c) ==
  IF IsUpper(c) THEN LowerChars[CHOOSE i \in 1..26 : UpperChars[i] = c] ELSE c

ToLower(s) == [i \in 1..Len(s) |-> LowerChar(s[i])]

\* Array.prototype.join / string concatenation of a list of strings.
RECURSIVE Concat(_)
Concat(ss) == IF ss = <<>> THEN <<>> ELSE Head(ss) \o Concat(Tail(ss))

\* s.startsWith(p, from i)  (1-based).
HasPrefixAt(s, i, p) ==
  /\ i + Len(p) - 1 <= Len(s)
  /\ \A k \in 1..Len(p) : s[i + k - 1] = p[k]

\* s.includes(c) for a one-character needle.
Includes(s, c) == \E i \in 1..Len(s) : s[i] = c

\* s.indexOf(c): the first position of c, 0 when there is none.
IndexOf(s, c) ==
  IF Includes(s, c)
  THEN CHOOSE i \in 1..Len(s) : s[i] = c /\ \A k \in 1..(i - 1) : s[k] # c
  ELSE 0

\* s.split(c): the pieces between the occurrences of c (at least one piece).
RECURSIVE Split(_, _)
Split(s, c) ==
  LET i == IndexOf(s, c)
  IN  IF i = 0 THEN <<s>>
      ELSE <<SubSeq(s, 1, i - 1)>> \o Split(SubSeq(s, i + 1, Len(s)), c)

(***************************************************************************)
(* JavaScript values                                                       *)
(***************************************************************************)
Undefined == [t |-> "undefined"]
Null      == [t |-> "null"]
Str(s)    == [t |-> "string", s |-> s]
Num(n)    == [t |-> "number", n |-> n]
Bool(b)   == [t |-> "boolean", b |-> b]
\* An object is its own-property function (keys are strings); an array is
\* its element sequence.
Obj(f)    == [t |-> "object", f |-> f]
Arr(a)    == [t |-> "array", a |-> a]
EmptyObj  == Obj(<<>>)

IsStr(v) == v.t = "string"

\* ToBoolean: what `if (v)`, `!v`, `a || b` and `a && b` test.
Truthy(v) ==
  CASE v.t = "undefined" -> FALSE
    [] v.t = "null"      -> FALSE
    [] v.t = "string"    -> Len(v.s) > 0
    [] v.t = "number"    -> v.n # 0
    [] v.t = "boolean"   -> v.b
    [] OTHER             -> TRUE

\* a || b
OrElse(a, b) == IF Truthy(a) THEN a ELSE b

\* typeof v === 'object'  (true of null, objects and arrays).
TypeofObject(v) == v.t \in {"null", "object", "array"}

\* The array index a property key denotes, -1 when it is none (one digit
\* is enough for the arrays of the model).
IndexKey(key) ==
  IF Len(key) = 1 /\ IsDigit(key[1])
  THEN (CHOOSE i \in 1..10 : DigitChars[i] = key[1]) - 1
  ELSE -1

\* v[key] for a value that is not null or undefined.  Properties inherited
\* from the prototypes (constructor, toString, ...) are left out: no key
\* of the model names one.
GetProp(v, key) ==
  CASE v.t = "object" ->
         IF key \in DOMAIN v.f THEN v.f[key] ELSE Undefined
    [] v.t = "array" ->
         IF IndexKey(key) >= 0 /\ IndexKey(key) < Len(v.a)
         THEN v.a[IndexKey(key) + 1]
         ELSE IF key = <<"l","e","n","g","t","h">> THEN Num(Len(v.a))
         ELSE Undefined
    [] v.t = "string" ->
         IF IndexKey(key) >= 0 /\ IndexKey(key) < Len(v.s)
         THEN Str(<<v.s[IndexKey(key) + 1]>>)
         ELSE IF key = <<"l","e","n","g","t","h">> THEN Num(Len(v.s))
         ELSE Undefined
    [] OTHER -> Undefined

\* v?.[key]: undefined when v is null or undefined.
GetOpt(v, key) == IF v.t \in {"undefined", "null"} THEN Undefined ELSE GetProp(v, key)

(***************************************************************************)
(* Percent-encoding, as encodeURIComponent, URLSearchParams and the URL    *)
(* parser do it.  The table holds the ASCII characters of the model that   *)
(* some encoder escapes; every other character of the model is a letter,   *)
(* a digit or one of - . _                                                  *)
(***************************************************************************)
PctTable ==
  << <<" ", "2", "0">>, <<"!", "2", "1">>, <<"#", "2", "3">>,
     <<"$", "2", "4">>, <<"%", "2", "5">>, <<"&", "2", "6">>,
     <<"'", "2", "7">>, <<"(", "2", "8">>, <<")", "2", "9">>,
     <<"*", "2", "A">>, <<"+", "2", "B">>, <<",", "2", "C">>,
     <<"/", "2", "F">>, <<":", "3", "A">>, <<";", "3", "B">>,
     <<"=", "3", "D">>, <<"?", "3", "F">>, <<"@", "4", "0">>,
     <<"[", "5", "B">>, <<"]", "5", "D">>, <<"~", "7", "E">> >>

PctRow(c) == CHOOSE i \in 1..Len(PctTable) : PctTable[i][1] = c

\* %XX for a character the caller has decided to escape.
PctEncodeChar(c) ==
  IF \E i \in 1..Len(PctTable) : PctTable[i][1] = c
  THEN <<"%", PctTable[PctRow(c)][2], PctTable[PctRow(c)][3]>>
  ELSE <<c>>

\* encodeURIComponent leaves A-Z a-z 0-9 - _ . ! ~ * ' ( ) alone.
UriComponentSafe(c) ==
  IsAlnum(c) \/ c \in {"-", "_", ".", "!", "~", "*", "'", "(", ")"}

encodeURIComponent(s) ==
  Concat([i \in 1..Len(s) |->
            IF UriComponentSafe(s[i]) THEN <<s[i]>> ELSE PctEncodeChar(s[i])])

\* The application/x-www-form-urlencoded serializer leaves A-Z a-z 0-9
\* * - . _ alone and writes a space as +.
FormEncode(s) ==
  Concat([i \in 1..Len(s) |->
            IF IsAlnum(s[i]) \/ s[i] \in {"*", "-", ".", "_"} THEN <<s[i]>>
            ELSE IF s[i] = " " THEN <<"+">>
            ELSE PctEncodeChar(s[i])])

\* Whether %XY at position i of s is an escape of the table (hex digits
\* compare case-insensitively: %2c and %2C are the same byte).
PctAt(s, i) ==
  /\ i + 2 <= Len(s)
  /\ s[i] = "%"
  /\ \E k \in 1..Len(PctTable) :
       /\ PctTable[k][2] = s[i + 1]
       /\ LowerChar(PctTable[k][3]) = LowerChar(s[i + 2])

PctCharAt(s, i) ==
  PctTable[CHOOSE k \in 1..Len(PctTable) :
             /\ PctTable[k][2] = s[i + 1]
             /\ LowerChar(PctTable[k][3]) = LowerChar(s[i + 2])][1]

\* Percent-decoding; a % that starts no escape stays as it is.
RECURSIVE PctDecodeFrom(_, _)
PctDecodeFrom(s, i) ==
  IF i > Len(s) THEN <<>>
  ELSE IF PctAt(s, i) THEN <<PctCharAt(s, i)>> \o PctDecodeFrom(s, i + 3)
  ELSE <<s[i]>> \o PctDecodeFrom(s, i + 1)

PctDecode(s) == PctDecodeFrom(s, 1)

\* The form-urlencoded parser's decoding of one name or value: + is a
\* space, then the escapes.
FormDecode(s) ==
  PctDecode([i \in 1..Len(s) |-> IF s[i] = "+" THEN " " ELSE s[i]])

(***************************************************************************)
(* URLSearchParams: an ordered list of <<name, value>> pairs               *)
(***************************************************************************)
\* One name=value piece of a query string, split at its first = .
ParsePair(piece) ==
  LET i == IndexOf(piece, "=")
  IN  IF i = 0 THEN <<FormDecode(piece), <<>> >>
      ELSE <<FormDecode(SubSeq(piece, 1, i - 1)),
             FormDecode(SubSeq(piece, i + 1, Len(piece)))>>

\* The form-urlencoded parser: the pieces between &, the empty ones skipped.
ParseQueryList(q) ==
  LET pieces == SelectSeq(Split(q, "&"), LAMBDA x : Len(x) > 0)
  IN  [i \in 1..Len(pieces) |-> ParsePair(pieces[i])]

\* URLSearchParams.prototype.toString.
RECURSIVE SerializePairs(_)
SerializePairs(ps) ==
  IF ps = <<>> THEN <<>>
  ELSE FormEncode(Head(ps)[1]) \o <<"=">> \o FormEncode(Head(ps)[2])
       \o (IF Len(ps) > 1 THEN <<"&">> ELSE <<>>)
       \o SerializePairs(Tail(ps))

(***************************************************************************)
(* new URL(s), url.searchParams.append and url.toString(), for the part    *)
(* of the URL standard the base URLs of a routing table exercise: an       *)
(* absolute URL with a scheme, http and https being "special" (a host is   *)
(* required and lower-cased, a default port is dropped, an empty path is   *)
(* "/"), any other scheme keeping what follows it verbatim.  User info,    *)
(* dot segments and characters the parser would escape are outside the     *)
(* model's base URLs.                                                      *)
(***************************************************************************)
\* The first position of s holding a character of cs, Len(s) + 1 if none.
FirstOf(s, cs) ==
  IF \E i \in 1..Len(s) : s[i] \in cs
  THEN CHOOSE i \in 1..Len(s) :
         s[i] \in cs /\ \A k \in 1..(i - 1) : s[k] \notin cs
  ELSE Len(s) + 1

\* s without its leading characters from cs.
RECURSIVE DropLeading(_, _)
DropLeading(s, cs) ==
  IF s # <<>> /\ Head(s) \in cs THEN DropLeading(Tail(s), cs) ELSE s

HttpScheme  == <<"h","t","t","p">>
HttpsScheme == <<"h","t","t","p","s">>
HttpPort    == <<"8","0">>
HttpsPort   == <<"4","4","3">>

\* The scheme state: a letter, then letters, digits, + - . up to the colon.
ValidScheme(s) ==
  /\ Len(s) > 0
  /\ IsUpper(s[1]) \/ IsLower(s[1])
  /\ \A i \in 1..Len(s) : IsAlnum(s[i]) \/ s[i] \in {"+", "-", "."}

\* The host state for a special scheme: a domain of letters, digits, - .
ValidHost(h) ==
  /\ Len(h) > 0
  /\ \A i \in 1..Len(h) : IsAlnum(h[i]) \/ h[i] \in {"-", "."}

ValidPort(p) == \A i \in 1..Len(p) : IsDigit(p[i])

\* What remains of a URL after its scheme and authority: path, query and
\* fragment (hasQuery: a ? was present, so the query is not null).
ParseTail(t, special) ==
  LET pe   == FirstOf(t, {"?", "#"})
      raw  == SubSeq(t, 1, pe - 1)
      rest == SubSeq(t, pe, Len(t))
      hq   == rest # <<>> /\ Head(rest) = "?"
      qe   == FirstOf(rest, {"#"})
      fr   == SubSeq(rest, qe, Len(rest))
  IN  [path        |-> IF special /\ raw = <<>> THEN <<"/">> ELSE raw,
       hasQuery    |-> hq,
       query       |-> IF hq THEN SubSeq(rest, 2, qe - 1) ELSE <<>>,
       hasFragment |-> fr # <<>>,
       fragment    |-> IF fr # <<>> THEN Tail(fr) ELSE <<>>]

\* new URL(s) with no base: [ok |-> FALSE] when it throws TypeError.
URLParse(s) ==
  LET c      == IndexOf(s, ":")
      scheme == ToLower(SubSeq(s, 1, c - 1))
      after  == SubSeq(s, c + 1, Len(s))
  IN  IF c = 0 \/ ~ValidScheme(SubSeq(s, 1, c - 1)) THEN [ok |-> FALSE]
      ELSE IF scheme \in {HttpScheme, HttpsScheme}
      THEN LET a    == DropLeading(after, {"/"})
               ae   == FirstOf(a, {"/", "?", "#"})
               auth == SubSeq(a, 1, ae - 1)
               pc   == IndexOf(auth, ":")
               host == ToLower(IF pc = 0 THEN auth ELSE SubSeq(auth, 1, pc - 1))
               port == IF pc = 0 THEN <<>> ELSE SubSeq(auth, pc + 1, Len(auth))
               dflt == IF scheme = HttpScheme THEN HttpPort ELSE HttpsPort
               t    == ParseTail(SubSeq(a, ae, Len(a)), TRUE)
           IN  IF ~ValidHost(host) \/ ~ValidPort(port) THEN [ok |-> FALSE]
               ELSE [ok |-> TRUE, scheme |-> scheme, special |-> TRUE,
                     host |-> host,
                     port |-> IF port = dflt THEN <<>> ELSE port,
                     path |-> t.path,
                     hasQuery |-> t.hasQuery, query |-> t.query,
                     hasFragment |-> t.hasFragment, fragment |-> t.fragment]
      ELSE LET t == ParseTail(after, FALSE)
           IN  [ok |-> TRUE, scheme |-> scheme, special |-> FALSE,
                host |-> <<>>, port |-> <<>>,
                path |-> t.path,
                hasQuery |-> t.hasQuery, query |-> t.query,
                hasFragment |-> t.hasFragment, fragment |-> t.fragment]

\* url.searchParams: the list parsed from the URL's query.
URLSearchParamsOf(u) == ParseQueryList(u.query)

\* url.searchParams.set(name, value) for each pair in turn: a parameter of
\* the same name that the URL already has is replaced.
URLAppendAll_set(u, pairs) ==
  LET names == {pairs[i][1] : i \in 1..Len(pairs)}
      kept  == SelectSeq(URLSearchParamsOf(u), LAMBDA p : p[1] \notin names)
      list  == kept \o pairs
  IN  [u EXCEPT !.hasQuery = list # <<>>, !.query = SerializePairs(list)]

\* url.searchParams.append(name, value) for each pair in turn: the list
\* grows and the URL's query becomes the serialization of the whole list.
URLAppendAll(u, pairs) ==
  LET list == URLSearchParamsOf(u) \o pairs
  IN  [u EXCEPT !.hasQuery = list # <<>>, !.query = SerializePairs(list)]

\* url.toString(): the URL serializer.
URLSerialize(u) ==
  u.scheme \o <<":">>
    \o (IF u.special THEN <<"/", "/">> \o u.host ELSE <<>>)
    \o (IF u.port # <<>> THEN <<":">> \o u.port ELSE <<>>)
    \o u.path
    \o (IF u.hasQuery THEN <<"?">> \o u.query ELSE <<>>)
    \o (IF u.hasFragment THEN <<"#">> \o u.fragment ELSE <<>>)

(***************************************************************************)
(* The property names, option values and message texts of the source      *)
(***************************************************************************)
K_apiUrls == <<"a","p","i","U","r","l","s">>
K_baseTag == <<"b","a","s","e","T","a","g">>
K_method == <<"m","e","t","h","o","d">>
K_url == <<"u","r","l">>
K_urlConstruction == <<"u","r","l","C","o","n","s","t","r","u","c","t","i",
    "o","n">>
K_modelName == <<"m","o","d","e","l","N","a","m","e">>
K_queryParams == <<"q","u","e","r","y","P","a","r","a","m","s">>
K_proxySettings == <<"p","r","o","x","y","S","e","t","t","i","n","g","s">>
K_name == <<"n","a","m","e">>
K_required == <<"r","e","q","u","i","r","e","d">>
K_defaultValue == <<"d","e","f","a","u","l","t","V","a","l","u","e">>
K_validValues == <<"v","a","l","i","d","V","a","l","u","e","s">>
K_imageUrlField == <<"i","m","a","g","e","U","r","l","F","i","e","l","d">>
K_fallbackAction == <<"f","a","l","l","b","a","c","k","A","c","t","i","o",
    "n">>
K_imageUrlFieldFromParamDefault == <<"i","m","a","g","e","U","r","l","F",
    "i","e","l","d","F","r","o","m","P","a","r","a","m","D","e","f","a","u",
    "l","t">>
K_error == <<"e","r","r","o","r">>
K_targetUrl == <<"t","a","r","g","e","t","U","r","l">>
K_message == <<"m","e","s","s","a","g","e">>
K_details == <<"d","e","t","a","i","l","s">>
K_tags == <<"t","a","g","s">>
K_model == <<"m","o","d","e","l">>
K_field == <<"f","i","e","l","d">>
K_sticker == <<"s","t","i","c","k","e","r">>
S_proxy == <<"p","r","o","x","y">>
S_redirect == <<"r","e","d","i","r","e","c","t">>
S_returnJson == <<"r","e","t","u","r","n","J","s","o","n">>
S_error == <<"e","r","r","o","r">>
S_special_forward == <<"s","p","e","c","i","a","l","_","f","o","r","w","a",
    "r","d">>
S_special_pollinations == <<"s","p","e","c","i","a","l","_","p","o","l","l",
    "i","n","a","t","i","o","n","s">>
S_special_draw_redirect == <<"s","p","e","c","i","a","l","_","d","r","a",
    "w","_","r","e","d","i","r","e","c","t">>
S_flux == <<"f","l","u","x">>
S_turbo == <<"t","u","r","b","o">>
S_config == <<"c","o","n","f","i","g">>
S_admin == <<"a","d","m","i","n">>
S_admin_html == <<"a","d","m","i","n",".","h","t","m","l">>
S_favicon_ico == <<"f","a","v","i","c","o","n",".","i","c","o">>
S_undefined == <<"u","n","d","e","f","i","n","e","d">>
S_null == <<"n","u","l","l">>
S_pct2c == <<"%","2","c">>
S_modelQuery == <<"?","&","m","o","d","e","l","=">>
S_nologo == <<"&","n","o","l","o","g","o","=","t","r","u","e">>
S_tagsQuery == <<"?","t","a","g","s","=">>
S_slash == <<"/">>
Msg_TargetApiError_pre == <<"T","a","r","g","e","t"," ","A","P","I"," ","e",
    "r","r","o","r"," ","(","S","t","a","t","u","s"," ">>
Msg_TargetApiError_post == <<")">>
Msg_ExtractFailed == <<"C","o","u","l","d"," ","n","o","t"," ","e","x","t",
    "r","a","c","t"," ","i","m","a","g","e"," ","U","R","L"," ","f","r","o",
    "m"," ","t","a","r","g","e","t"," ","A","P","I"," ","r","e","s","p","o",
    "n","s","e",".">>
Msg_ProxyTargetError == <<"P","r","o","x","y"," ","t","a","r","g","e","t",
    " ","r","e","t","u","r","n","e","d"," ","a","n"," ","e","r","r","o","r">>
Msg_ProxyTimedOut == <<"P","r","o","x","y"," ","r","e","q","u","e","s","t",
    " ","t","i","m","e","d"," ","o","u","t"," ","o","r"," ","f","a","i","l",
    "e","d">>
Msg_ProxySetupFailed == <<"P","r","o","x","y"," ","r","e","q","u","e","s",
    "t"," ","s","e","t","u","p"," ","f","a","i","l","e","d">>
Msg_InvalidConfig == <<"I","n","v","a","l","i","d"," ","c","o","n","f","i",
    "g","u","r","a","t","i","o","n"," ","f","o","r","m","a","t",".">>
Msg_MissingUrl == <<"M","i","s","s","i","n","g"," ","r","e","q","u","i","r",
    "e","d"," ","q","u","e","r","y"," ","p","a","r","a","m","e","t","e","r",
    ":"," ","u","r","l">>
Msg_MissingTags == <<"M","i","s","s","i","n","g"," ","r","e","q","u","i",
    "r","e","d"," ","q","u","e","r","y"," ","p","a","r","a","m","e","t","e",
    "r",":"," ","t","a","g","s">>
Msg_InvalidModel_pre == <<"I","n","v","a","l","i","d"," ","m","o","d","e",
    "l"," ","p","a","r","a","m","e","t","e","r","."," ","V","a","l","i","d",
    " ","o","p","t","i","o","n","s",":"," ">>
Msg_InvalidQuery == <<"I","n","v","a","l","i","d"," ","q","u","e","r","y",
    " ","p","a","r","a","m","e","t","e","r","s",".">>
Msg_InvalidValue_pre == <<"I","n","v","a","l","i","d"," ","v","a","l","u",
    "e"," ","f","o","r"," ","p","a","r","a","m","e","t","e","r"," ","'">>
Msg_InvalidValue_mid == <<"'","."," ","V","a","l","i","d",":"," ">>
Msg_MissingRequired_pre == <<"M","i","s","s","i","n","g"," ","r","e","q",
    "u","i","r","e","d"," ","q","u","e","r","y"," ","p","a","r","a","m","e",
    "t","e","r",":"," ">>
Msg_UrlMissing == <<"I","n","t","e","r","n","a","l"," ","s","e","r","v","e",
    "r"," ","e","r","r","o","r",":"," ","A","P","I"," ","c","o","n","f","i",
    "g","u","r","a","t","i","o","n"," ","U","R","L"," ","i","s"," ","m","i",
    "s","s","i","n","g",".">>
Msg_Sep == <<","," ">>
Msg_Dot == <<".">>
\* The answers of POST /config and of checkAdminAuth.
Msg_FileFailed == <<"F","a","i","l","e","d"," ","t","o"," ","s","a","v","e",
    " ","c","o","n","f","i","g","u","r","a","t","i","o","n"," ","f","i","l",
    "e",","," ","b","u","t"," ","i","n","-","m","e","m","o","r","y"," ","c",
    "o","n","f","i","g"," ","u","p","d","a","t","e","d",".">>
Msg_Saved == <<"C","o","n","f","i","g","u","r","a","t","i","o","n"," ","u",
    "p","d","a","t","e","d"," ","s","u","c","c","e","s","s","f","u","l","l",
    "y","."," ","C","h","a","n","g","e","s"," ","a","r","e"," ","n","o","w",
    " ","l","i","v","e",".">>
Msg_BothFailed == <<"F","a","i","l","e","d"," ","t","o"," ","s","a","v","e",
    " ","c","o","n","f","i","g","u","r","a","t","i","o","n"," ","t","o"," ",
    "b","o","t","h"," ","M","o","n","g","o","D","B"," ","a","n","d"," ","f",
    "i","l","e",","," ","b","u","t"," ","i","n","-","m","e","m","o","r","y",
    " ","c","o","n","f","i","g"," ","u","p","d","a","t","e","d",".">>
Msg_MongoOnlyBackupFailed == <<"C","o","n","f","i","g","u","r","a","t","i",
    "o","n"," ","s","a","v","e","d"," ","t","o"," ","M","o","n","g","o","D",
    "B"," ","b","u","t"," ","b","a","c","k","u","p"," ","t","o"," ","f","i",
    "l","e"," ","f","a","i","l","e","d","."," ","C","h","a","n","g","e","s",
    " ","a","r","e"," ","n","o","w"," ","l","i","v","e",".">>
Msg_FileFailedNoMongo == <<"F","a","i","l","e","d"," ","t","o"," ","s","a",
    "v","e"," ","c","o","n","f","i","g","u","r","a","t","i","o","n"," ","t",
    "o"," ","f","i","l","e"," ","a","n","d"," ","M","o","n","g","o","D","B",
    " ","i","s"," ","n","o","t"," ","a","v","a","i","l","a","b","l","e",".",
    " ","I","n","-","m","e","m","o","r","y"," ","c","o","n","f","i","g"," ",
    "i","s"," ","u","p","d","a","t","e","d",".">>
Msg_SavedBoth == <<"C","o","n","f","i","g","u","r","a","t","i","o","n"," ",
    "u","p","d","a","t","e","d"," ","s","u","c","c","e","s","s","f","u","l",
    "l","y"," ","a","n","d"," ","s","a","v","e","d"," ","t","o"," ","b","o",
    "t","h"," ","M","o","n","g","o","D","B"," ","a","n","d"," ","f","i","l",
    "e","."," ","C","h","a","n","g","e","s"," ","a","r","e"," ","n","o","w",
    " ","l","i","v","e",".">>
Msg_FileOnlyMongoFailed == <<"C","o","n","f","i","g","u","r","a","t","i",
    "o","n"," ","s","a","v","e","d"," ","t","o"," ","f","i","l","e"," ","b",
    "u","t"," ","M","o","n","g","o","D","B"," ","u","p","d","a","t","e"," ",
    "f","a","i","l","e","d","."," ","C","h","a","n","g","e","s"," ","a","r",
    "e"," ","n","o","w"," ","l","i","v","e",".">>
Msg_FileOnlyNoMongo == <<"C","o","n","f","i","g","u","r","a","t","i","o",
    "n"," ","s","a","v","e","d"," ","t","o"," ","l","o","c","a","l"," ","f",
    "i","l","e","."," ","M","o","n","g","o","D","B"," ","i","s"," ","n","o",
    "t"," ","a","v","a","i","l","a","b","l","e","."," ","C","h","a","n","g",
    "e","s"," ","a","r","e"," ","n","o","w"," ","l","i","v","e",".">>
Msg_SavedMongo == <<"C","o","n","f","i","g","u","r","a","t","i","o","n"," ",
    "s","a","v","e","d"," ","t","o"," ","M","o","n","g","o","D","B","."," ",
    "C","h","a","n","g","e","s"," ","a","r","e"," ","n","o","w"," ","l","i",
    "v","e",".">>
Msg_MongoFailed == <<"F","a","i","l","e","d"," ","t","o"," ","s","a","v",
    "e"," ","c","o","n","f","i","g","u","r","a","t","i","o","n"," ","t","o",
    " ","M","o","n","g","o","D","B",","," ","b","u","t"," ","i","n","-","m",
    "e","m","o","r","y"," ","c","o","n","f","i","g"," ","u","p","d","a","t",
    "e","d",".">>
Msg_NoStorage == <<"N","o"," ","p","e","r","s","i","s","t","e","n","t"," ",
    "s","t","o","r","a","g","e"," ","a","v","a","i","l","a","b","l","e",".",
    " ","C","o","n","f","i","g","u","r","a","t","i","o","n"," ","o","n","l",
    "y"," ","u","p","d","a","t","e","d"," ","i","n"," ","m","e","m","o","r",
    "y"," ","a","n","d"," ","w","i","l","l"," ","b","e"," ","l","o","s","t",
    " ","o","n"," ","s","e","r","v","e","r"," ","r","e","s","t","a","r","t",
    ".">>
Msg_Unauthorized == <<"U","n","a","u","t","h","o","r","i","z","e","d">>
S_admin_login == <<"a","d","m","i","n","-","l","o","g","i","n">>
S_admin_logout == <<"a","d","m","i","n","-","l","o","g","o","u","t">>
S_adminToken == <<"a","d","m","i","n">>
S_guess == <<"g","u","e","s","s">>
S_x == <<"x">>

(***************************************************************************)
(* HTTP responses: what res.redirect, res.json and res.status(n).json      *)
(* send.  res.redirect answers 302 with the given string as Location.     *)
(***************************************************************************)
JsonResponse(status, body) ==
  [kind |-> "json", status |-> status, body |-> body, location |-> Undefined]

RedirectResponse(url) ==
  [kind |-> "redirect", status |-> 302, body |-> Undefined, location |-> url]

ErrorBody(msg) == Obj(K_error :> Str(msg))

\* String(n) for a status code.
RECURSIVE NumToStr(_)
NumToStr(n) ==
  IF n < 10 THEN <<DigitChars[n + 1]>>
  ELSE NumToStr(n \div 10) \o <<DigitChars[(n % 10) + 1]>>

\* `${v}` in a template literal.
ToStr(v) ==
  CASE v.t = "string"    -> v.s
    [] v.t = "undefined" -> S_undefined
    [] v.t = "null"      -> S_null
    [] v.t = "number"    -> NumToStr(v.n)
    [] OTHER             -> <<>>

(***************************************************************************)
(* Media-location extraction                                               *)
(***************************************************************************)
ImageExtensions ==
  { <<"j","p","e","g">>, <<"j","p","g">>, <<"g","i","f">>, <<"p","n","g">>,
    <<"w","e","b","p">>, <<"b","m","p">>, <<"s","v","g">> }

\* s.match(/\.(jpeg|jpg|gif|png|webp|bmp|svg)/i): a dot followed by one of
\* the extensions, anywhere in the string, whatever the case.
MatchesImagePattern(s) ==
  \E i \in 1..Len(s) :
    /\ s[i] = "."
    /\ \E e \in ImageExtensions : HasPrefixAt(ToLower(s), i + 1, e)

\* The loop of getValueByDotNotation over the keys still to follow.
RECURSIVE WalkKeys(_, _)
WalkKeys(current, keys) ==
  IF keys = <<>> THEN current
  ELSE IF current.t \in {"null", "undefined"} \/ ~TypeofObject(current)
       THEN Undefined
       ELSE WalkKeys(GetProp(current, Head(keys)), Tail(keys))

\* A lookup that takes the whole path as one property name.
getValueByDotNotation_flat(obj, path) ==
  IF ~Truthy(path) THEN Undefined ELSE GetProp(obj, path.s)

getValueByDotNotation(obj, path) ==
  IF ~Truthy(path) THEN Undefined
  ELSE WalkKeys(obj, Split(path.s, "."))

\* An extraction that, when the configured field gives nothing, looks for
\* url inside the container sticker.
ExtractImageUrl_sticker(data, proxySettings) ==
  LET fieldToUse == GetProp(proxySettings, K_imageUrlField)
      explicit == IF Truthy(fieldToUse) /\ Truthy(data) /\ TypeofObject(data)
                  THEN getValueByDotNotation(data, fieldToUse)
                  ELSE Undefined
      nested   == WalkKeys(data, <<K_sticker, K_url>>)
  IN  IF IsStr(explicit) /\ MatchesImagePattern(explicit.s) THEN explicit
      ELSE IF IsStr(nested) /\ MatchesImagePattern(nested.s) THEN nested
      ELSE Null

\* The imageUrl handleProxyRequest ends up with: the string found at the
\* configured field when it looks like an image, null otherwise.
ExtractImageUrl(data, proxySettings) ==
  LET fieldToUse == GetProp(proxySettings, K_imageUrlField)
  IN  IF Truthy(fieldToUse) /\ Truthy(data) /\ TypeofObject(data)
      THEN LET imageUrl == getValueByDotNotation(data, fieldToUse)
           IN  IF IsStr(imageUrl) /\ MatchesImagePattern(imageUrl.s)
               THEN imageUrl
               ELSE Null
      ELSE Null

(***************************************************************************)
(* The upstream call.  What axios.get ends with is an outcome:             *)
(*   [kind |-> "response", status, data]  the upstream answered;           *)
(*   [kind |-> "noResponse"]   a request was sent and nothing came back    *)
(*                             (timeout, DNS, refused): error.request;     *)
(*   [kind |-> "setupError"]   nothing was sent: neither error.response    *)
(*                             nor error.request.                          *)
(***************************************************************************)
\* validateStatus: the statuses axios resolves with; it rejects the others
\* with error.response set.
validateStatus(status) == status >= 200 /\ status < 500

\* A test that lets the 4xx answers through to the extraction.
IsUpstreamError_5xx(status) == status >= 500

\* response.status >= 400
IsUpstreamError(status) == status >= 400

\* A fallback that reports an error unless told otherwise.
FallbackAction_error(settings) ==
  OrElse(GetProp(settings, K_fallbackAction), Str(S_error))

\* proxySettings.fallbackAction || 'returnJson'
FallbackAction(settings) ==
  OrElse(GetProp(settings, K_fallbackAction), Str(S_returnJson))

\* A catch block that takes every failure without a response for a setup
\* failure.
CatchResponse_setup(targetUrl, outcome) ==
  IF outcome.kind = "response"
  THEN JsonResponse(outcome.status,
         OrElse(outcome.data, ErrorBody(Msg_ProxyTargetError)))
  ELSE JsonResponse(500,
         Obj(K_error :> Str(Msg_ProxySetupFailed) @@ K_message :> Str(<<>>)))

\* The catch block: error.response, error.request, or neither.  The text
\* of error.message is left empty.
CatchResponse(targetUrl, outcome) ==
  IF outcome.kind = "response"
  THEN JsonResponse(outcome.status,
         OrElse(outcome.data, ErrorBody(Msg_ProxyTargetError)))
  ELSE IF outcome.kind = "noResponse"
  THEN JsonResponse(504,
         Obj(K_error :> Str(Msg_ProxyTimedOut) @@ K_targetUrl :> targetUrl))
  ELSE JsonResponse(500,
         Obj(K_error :> Str(Msg_ProxySetupFailed) @@ K_message :> Str(<<>>)))

\* handleProxyRequest from the point where axios.get has settled.
\* proxySettings is absent (the default {} applies) or an object.
handleProxyRequest(targetUrl, proxySettings, outcome) ==
  LET settings == IF proxySettings = Undefined THEN EmptyObj ELSE proxySettings
  IN  IF outcome.kind = "response" /\ validateStatus(outcome.status)
      THEN IF IsUpstreamError(outcome.status)
           THEN JsonResponse(outcome.status,
                  OrElse(outcome.data,
                         ErrorBody(Msg_TargetApiError_pre
                                   \o NumToStr(outcome.status)
                                   \o Msg_TargetApiError_post)))
           ELSE LET imageUrl == ExtractImageUrl(outcome.data, settings)
                IN  IF Truthy(imageUrl) THEN RedirectResponse(imageUrl)
                    ELSE IF FallbackAction(settings) = Str(S_error)
                    THEN JsonResponse(404,
                           Obj(K_error :> Str(Msg_ExtractFailed)
                               @@ K_targetUrl :> targetUrl))
                    ELSE JsonResponse(200, outcome.data)
      ELSE CatchResponse(targetUrl, outcome)

(***************************************************************************)
(* The wildcard handler app.get('/:apiKey'), up to its response or to the  *)
(* upstream call it awaits.  The three variants of the file               *)
(*   "index"  src/index.js                                                 *)
(*   "mongo"  src/unnamed/part_000, lines 1-1152                           *)
(*   "auth"   src/unnamed/part_000, lines 1153-3587                        *)
(* differ here only in the system key they pass on: admin.html in the      *)
(* first, admin in the other two.                                          *)
(***************************************************************************)
Variants == {"index", "mongo", "auth"}

\* A check that leaves config to the lookup.
IsReservedKey_noConfig(variant, apiKey) ==
  \/ Includes(apiKey, ".")
  \/ apiKey = S_favicon_ico
  \/ IF variant = "index" THEN apiKey = S_admin_html ELSE apiKey = S_admin

\* The keys the handler passes to next() before any lookup.
IsReservedKey(variant, apiKey) ==
  \/ Includes(apiKey, ".")
  \/ apiKey = S_favicon_ico
  \/ apiKey = S_config
  \/ IF variant = "index" THEN apiKey = S_admin_html ELSE apiKey = S_admin

\* currentConfig.apiUrls ? currentConfig.apiUrls[apiKey] : undefined
LookupEntry(config, apiKey) ==
  IF Truthy(GetProp(config, K_apiUrls))
  THEN GetProp(GetProp(config, K_apiUrls), apiKey)
  ELSE Undefined

\* arr.includes(v)
ArrIncludes(arr, v) == \E i \in 1..Len(arr.a) : arr.a[i] = v

\* arr.join(', ') for an array of strings.
RECURSIVE JoinStrs(_)
JoinStrs(a) ==
  IF a = <<>> THEN <<>>
  ELSE IF Len(a) = 1 THEN ToStr(a[1])
  ELSE ToStr(a[1]) \o Msg_Sep \o JoinStrs(Tail(a))

MissingRequiredMsg(name) == Msg_MissingRequired_pre \o name \o Msg_Dot

InvalidValueMsg(name, validValues) ==
  Msg_InvalidValue_pre \o name \o Msg_InvalidValue_mid
    \o JoinStrs(validValues.a) \o Msg_Dot

\* validatedParams[name] = value on an object kept as its list of
\* <<name, value>> entries in insertion order.
SetPair(ps, name, value) ==
  IF \E i \in 1..Len(ps) : ps[i][1] = name
  THEN [i \in 1..Len(ps) |-> IF ps[i][1] = name THEN <<name, value>> ELSE ps[i]]
  ELSE Append(ps, <<name, value>>)

\* A turn of the loop that takes any supplied value, allowed or not.
ValidateOne_anyValue(paramConfig, query, acc) ==
  LET name       == GetProp(paramConfig, K_name).s
      paramValue == GetProp(query, name)
  IN  IF paramValue # Undefined
      THEN [acc EXCEPT !.validated = SetPair(@, name, paramValue)]
      ELSE IF Truthy(GetProp(paramConfig, K_required))
      THEN [acc EXCEPT !.errors = Append(@, MissingRequiredMsg(name))]
      ELSE IF GetProp(paramConfig, K_defaultValue) # Undefined
      THEN [acc EXCEPT !.validated =
              SetPair(@, name, GetProp(paramConfig, K_defaultValue))]
      ELSE acc

\* One turn of the validation loop, for paramConfig, on the validated
\* parameters and the errors collected so far.
ValidateOne(paramConfig, query, acc) ==
  LET name        == GetProp(paramConfig, K_name).s
      paramValue  == GetProp(query, name)
      validValues == GetProp(paramConfig, K_validValues)
  IN  IF paramValue # Undefined
      THEN IF Truthy(validValues) /\ ~ArrIncludes(validValues, paramValue)
           THEN [acc EXCEPT !.errors =
                   Append(@, InvalidValueMsg(name, validValues))]
           ELSE [acc EXCEPT !.validated = SetPair(@, name, paramValue)]
      ELSE IF Truthy(GetProp(paramConfig, K_required))
      THEN [acc EXCEPT !.errors = Append(@, MissingRequiredMsg(name))]
      ELSE IF GetProp(paramConfig, K_defaultValue) # Undefined
      THEN [acc EXCEPT !.validated =
              SetPair(@, name, GetProp(paramConfig, K_defaultValue))]
      ELSE acc

\* A validation loop that stops at the first spec that fails.
RECURSIVE ValidateFrom_firstError(_, _, _)
ValidateFrom_firstError(specs, query, acc) ==
  IF specs = <<>> \/ acc.errors # <<>> THEN acc
  ELSE ValidateFrom_firstError(Tail(specs), query,
                               ValidateOne(Head(specs), query, acc))

RECURSIVE ValidateFrom(_, _, _)
ValidateFrom(specs, query, acc) ==
  IF specs = <<>> THEN acc
  ELSE ValidateFrom(Tail(specs), query, ValidateOne(Head(specs), query, acc))

\* The members of the object obj whose keys are in keys, as a list of
\* <<name, value>> entries.
RECURSIVE EntriesAmong(_, _)
EntriesAmong(obj, keys) ==
  IF keys = {} THEN <<>>
  ELSE LET k == CHOOSE x \in keys : TRUE
       IN  <<<<k, obj.f[k]>>>> \o EntriesAmong(obj, keys \ {k})

\* A validation that starts from the whole query: what the client sent is
\* passed on, and the schema only checks and completes it.
ValidateParams_passThrough(configEntry, query) ==
  LET queryParamsConfig == OrElse(GetProp(configEntry, K_queryParams), Arr(<<>>))
  IN  ValidateFrom(queryParamsConfig.a, query,
                   [validated |-> EntriesAmong(query, DOMAIN query.f),
                    errors |-> <<>>])

\* The validation loop over configEntry.queryParams || [].
ValidateParams(configEntry, query) ==
  LET queryParamsConfig == OrElse(GetProp(configEntry, K_queryParams), Arr(<<>>))
  IN  ValidateFrom(queryParamsConfig.a, query,
                   [validated |-> <<>>, errors |-> <<>>])

\* The entries of validatedParams as URLSearchParams takes them: each
\* value converted to a string.
ParamPairs(validated) ==
  [i \in 1..Len(validated) |-> <<validated[i][1], ToStr(validated[i][2])>>]

\* A construction that always joins the base URL and the serialized
\* parameters as strings.
BuildTargetUrl_concat(url, validated) ==
  IF validated = <<>> THEN url
  ELSE url \o (IF Includes(url, "?") THEN <<"&">> ELSE <<"?">>)
           \o SerializePairs(ParamPairs(validated))

\* Step 2 of the generic handler: the target URL for a base URL that is
\* present.  With validated parameters it is the parsed base URL with
\* each one appended, or, when new URL throws, the base URL followed by
\* ? or & and the serialized parameters.
BuildTargetUrl(url, validated) ==
  IF validated = <<>> THEN url
  ELSE LET base == URLParse(url)
       IN  IF base.ok
           THEN URLSerialize(URLAppendAll(base, ParamPairs(validated)))
           ELSE url \o (IF Includes(url, "?") THEN <<"&">> ELSE <<"?">>)
                    \o SerializePairs(ParamPairs(validated))

(***************************************************************************)
(* What the synchronous part of the wildcard handler ends with:            *)
(*   "next"     next() was called and nothing was sent;                    *)
(*   "respond"  the response resp was sent;                                *)
(*   "proxy"    handleProxyRequest(targetUrl, proxySettings, res) was      *)
(*              entered and awaits axios.get(targetUrl).                   *)
(***************************************************************************)
PassToNext ==
  [kind |-> "next", resp |-> Undefined,
   targetUrl |-> Undefined, proxySettings |-> Undefined]

Respond(resp) ==
  [kind |-> "respond", resp |-> resp,
   targetUrl |-> Undefined, proxySettings |-> Undefined]

CallUpstream(targetUrl, proxySettings) ==
  [kind |-> "proxy", resp |-> Undefined,
   targetUrl |-> targetUrl, proxySettings |-> proxySettings]

\* { ...o, [key]: value }: spreading undefined or null adds nothing.
SpreadWith(o, key, value) ==
  Obj((key :> value) @@ (IF o.t = "object" THEN o.f ELSE <<>>))

\* A forward construction whose extraction field is the request's field
\* parameter or "url", whatever the route declares.
SpecialForward_urlDefault(configEntry, query) ==
  LET targetUrlParam == GetProp(query, K_url)
      settings   == GetProp(configEntry, K_proxySettings)
      fieldParam == OrElse(GetProp(query, K_field), Str(K_url))
  IN  IF ~Truthy(targetUrlParam)
      THEN Respond(JsonResponse(400, ErrorBody(Msg_MissingUrl)))
      ELSE CallUpstream(targetUrlParam,
                        SpreadWith(settings, K_imageUrlField, fieldParam))

\* urlConstruction === 'special_forward'
SpecialForward(configEntry, query) ==
  LET targetUrlParam == GetProp(query, K_url)
      settings   == GetProp(configEntry, K_proxySettings)
      fieldParam == OrElse(OrElse(GetProp(query, K_field),
                                  GetOpt(settings, K_imageUrlFieldFromParamDefault)),
                           Str(K_url))
  IN  IF ~Truthy(targetUrlParam)
      THEN Respond(JsonResponse(400, ErrorBody(Msg_MissingUrl)))
      ELSE CallUpstream(targetUrlParam,
                        SpreadWith(settings, K_imageUrlField, fieldParam))

\* urlConstruction === 'special_pollinations'
SpecialPollinations(config, configEntry, query) ==
  LET tags      == GetProp(query, K_tags)
      baseUrl   == GetProp(configEntry, K_url)
      modelName == GetProp(configEntry, K_modelName)
      baseTag   == OrElse(GetProp(config, K_baseTag), Str(<<>>))
  IN  IF ~Truthy(tags)
      THEN Respond(JsonResponse(400, ErrorBody(Msg_MissingTags)))
      ELSE Respond(RedirectResponse(Str(
             ToStr(baseUrl) \o encodeURIComponent(ToStr(tags)) \o S_pct2c
               \o ToStr(baseTag) \o S_modelQuery \o ToStr(modelName)
               \o S_nologo)))

\* configEntry.queryParams?.find(p => p.name === 'model')
FindModelParam(configEntry) ==
  LET qp == GetProp(configEntry, K_queryParams)
  IN  IF qp.t = "array"
         /\ \E i \in 1..Len(qp.a) : GetProp(qp.a[i], K_name) = Str(K_model)
      THEN qp.a[CHOOSE i \in 1..Len(qp.a) :
                  /\ GetProp(qp.a[i], K_name) = Str(K_model)
                  /\ \A k \in 1..(i - 1) : GetProp(qp.a[k], K_name) # Str(K_model)]
      ELSE Undefined

\* A draw alias whose model is the request's model parameter or flux,
\* whatever default the schema declares.
SpecialDrawRedirect_fluxDefault(configEntry, query) ==
  LET tags  == GetProp(query, K_tags)
      modelParamConfig == FindModelParam(configEntry)
      model == OrElse(GetProp(query, K_model), Str(S_flux))
      validModels == OrElse(GetOpt(modelParamConfig, K_validValues),
                            Arr(<<Str(S_flux), Str(S_turbo)>>))
  IN  IF ~Truthy(tags)
      THEN Respond(JsonResponse(400, ErrorBody(Msg_MissingTags)))
      ELSE IF ~ArrIncludes(validModels, model)
      THEN Respond(JsonResponse(400,
             ErrorBody(Msg_InvalidModel_pre \o JoinStrs(validModels.a))))
      ELSE Respond(RedirectResponse(Str(
             S_slash \o ToStr(model) \o S_tagsQuery
               \o encodeURIComponent(ToStr(tags)))))

\* urlConstruction === 'special_draw_redirect'
SpecialDrawRedirect(configEntry, query) ==
  LET tags  == GetProp(query, K_tags)
      modelParamConfig == FindModelParam(configEntry)
      model == OrElse(OrElse(GetProp(query, K_model),
                             GetOpt(modelParamConfig, K_defaultValue)),
                      Str(S_flux))
      validModels == OrElse(GetOpt(modelParamConfig, K_validValues),
                            Arr(<<Str(S_flux), Str(S_turbo)>>))
  IN  IF ~Truthy(tags)
      THEN Respond(JsonResponse(400, ErrorBody(Msg_MissingTags)))
      ELSE IF ~ArrIncludes(validModels, model)
      THEN Respond(JsonResponse(400,
             ErrorBody(Msg_InvalidModel_pre \o JoinStrs(validModels.a))))
      ELSE Respond(RedirectResponse(Str(
             S_slash \o ToStr(model) \o S_tagsQuery
               \o encodeURIComponent(ToStr(tags)))))

\* The generic handler: validation, the target URL, then the method.
GenericHandler(configEntry, query) ==
  LET v         == ValidateParams(configEntry, query)
      targetUrl == GetProp(configEntry, K_url)
  IN  IF v.errors # <<>>
      THEN Respond(JsonResponse(400,
             Obj(K_error :> Str(Msg_InvalidQuery)
                 @@ K_details :> Arr([i \in 1..Len(v.errors) |-> Str(v.errors[i])]))))
      ELSE IF ~Truthy(targetUrl)
      THEN Respond(JsonResponse(500, ErrorBody(Msg_UrlMissing)))
      ELSE LET built == Str(BuildTargetUrl(targetUrl.s, v.validated))
           IN  IF GetProp(configEntry, K_method) = Str(S_proxy)
               THEN CallUpstream(built, GetProp(configEntry, K_proxySettings))
               ELSE Respond(RedirectResponse(built))

\* A wildcard handler that looks at the special construction before the
\* method.
RouteHandler_specialFirst(variant, config, apiKey, query) ==
  IF IsReservedKey(variant, apiKey) THEN PassToNext
  ELSE LET configEntry == LookupEntry(config, apiKey)
           construction == GetProp(configEntry, K_urlConstruction)
       IN  IF ~Truthy(configEntry) THEN PassToNext
           ELSE IF construction = Str(S_special_forward)
           THEN SpecialForward(configEntry, query)
           ELSE IF construction = Str(S_special_pollinations)
           THEN SpecialPollinations(config, configEntry, query)
           ELSE IF construction = Str(S_special_draw_redirect)
           THEN SpecialDrawRedirect(configEntry, query)
           ELSE IF ~Truthy(GetProp(configEntry, K_method)) THEN PassToNext
           ELSE GenericHandler(configEntry, query)

\* A wildcard handler that uses a special construction only on a route
\* whose method agrees with it (forward with proxy, the other two with
\* redirect) and handles every other route generically.
RouteHandler_byMethod(variant, config, apiKey, query) ==
  IF IsReservedKey(variant, apiKey) THEN PassToNext
  ELSE LET configEntry == LookupEntry(config, apiKey)
           construction == GetProp(configEntry, K_urlConstruction)
           method == GetProp(configEntry, K_method)
       IN  IF ~Truthy(configEntry) \/ ~Truthy(method)
           THEN PassToNext
           ELSE IF construction = Str(S_special_forward)
                   /\ method = Str(S_proxy)
           THEN SpecialForward(configEntry, query)
           ELSE IF construction = Str(S_special_pollinations)
                   /\ method # Str(S_proxy)
           THEN SpecialPollinations(config, configEntry, query)
           ELSE IF construction = Str(S_special_draw_redirect)
                   /\ method # Str(S_proxy)
           THEN SpecialDrawRedirect(configEntry, query)
           ELSE GenericHandler(configEntry, query)

\* app.get('/:apiKey') on the table config, from its first line to its
\* first response, next() or await.
RouteHandler(variant, config, apiKey, query) ==
  IF IsReservedKey(variant, apiKey) THEN PassToNext
  ELSE LET configEntry == LookupEntry(config, apiKey)
           construction == GetProp(configEntry, K_urlConstruction)
       IN  IF ~Truthy(configEntry) \/ ~Truthy(GetProp(configEntry, K_method))
           THEN PassToNext
           ELSE IF construction = Str(S_special_forward)
           THEN SpecialForward(configEntry, query)
           ELSE IF construction = Str(S_special_pollinations)
           THEN SpecialPollinations(config, configEntry, query)
           ELSE IF construction = Str(S_special_draw_redirect)
           THEN SpecialDrawRedirect(configEntry, query)
           ELSE GenericHandler(configEntry, query)

(***************************************************************************)
(* The strings of the routing tables, requests and upstream bodies the     *)
(* model draws its inputs from                                             *)
(***************************************************************************)
U_clean == <<"h","t","t","p","s",":","/","/","x",".","c","o","m","/","a",
    "p","i">>
U_bare == <<"h","t","t","p","s",":","/","/","X",".","c","o","m">>
U_query == <<"h","t","t","p","s",":","/","/","x",".","c","o","m","/","a",
    "p","i","?","q","=","a","%","2","0","b","#","t","o","p">>
U_raw == <<"x",".","c","o","m","/","a","p","i">>
U_rawq == <<"/","i","m","g","?","a","=","1">>
U_samek == <<"h","t","t","p","s",":","/","/","x",".","c","o","m","/","a",
    "p","i","?","k","=","1">>
T_samek == <<"h","t","t","p","s",":","/","/","x",".","c","o","m","/","a",
    "p","i","?","k","=","1","&","k","=","a","+","b">>
U_up == <<"h","t","t","p","s",":","/","/","u",".","c","o","m","/","s">>
U_poll == <<"h","t","t","p","s",":","/","/","i","m","g",".","e","x","a","m",
    "p","l","e","/","p","r","o","m","p","t","/">>
I_png == <<"h","t","t","p","s",":","/","/","x",".","c","o","m","/","a",".",
    "p","n","g">>
I_webp == <<"h","t","t","p","s",":","/","/","x",".","c","o","m","/","a",".",
    "w","e","b","p">>
I_upper == <<"h","t","t","p","s",":","/","/","x",".","c","o","m","/","A",
    ".","P","N","G","?","x","=","1">>
I_gif == <<"h","t","t","p","s",":","/","/","x",".","c","o","m","/","a",".",
    "g","i","f">>
N_notimage == <<"n","o","t","-","a","n","-","i","m","a","g","e">>
N_page == <<"h","t","t","p","s",":","/","/","x",".","c","o","m","/","p","a",
    "g","e">>
R_tag == <<"t","a","g">>
R_bare == <<"b","a","r","e">>
R_q == <<"q">>
R_raw == <<"r","a","w">>
R_rawq == <<"r","a","w","q">>
R_plain == <<"p","l","a","i","n">>
R_nourl == <<"n","o","u","r","l">>
R_nomethod == <<"n","o","m","e","t","h","o","d">>
R_doro == <<"d","o","r","o">>
R_perr == <<"p","e","r","r">>
R_pnone == <<"p","n","o","n","e">>
R_pjson == <<"p","j","s","o","n">>
R_forward == <<"f","o","r","w","a","r","d">>
R_flux == <<"f","l","u","x">>
R_draw == <<"d","r","a","w">>
R_dotted == <<"a",".","b">>
R_absent == <<"n","o","k","e","y">>
R_nomspecial == <<"n","o","m","s","p","e","c","i","a","l">>
P_keyword == <<"k","e","y","w","o","r","d">>
P_size == <<"s","i","z","e">>
P_r18 == <<"r","1","8">>
P_k == <<"k">>
P_extra == <<"e","x","t","r","a">>
V_a == <<"a">>
V_b == <<"b">>
V_c == <<"c">>
V_regular == <<"r","e","g","u","l","a","r">>
V_small == <<"s","m","a","l","l">>
V_big == <<"b","i","g">>
V_ab == <<"a"," ","b">>
V_1 == <<"1">>
V_x == <<"x">>
F_data_link == <<"d","a","t","a",".","l","i","n","k">>
F_data_0_url == <<"d","a","t","a",".","0",".","u","r","l">>
F_sticker_url == <<"s","t","i","c","k","e","r",".","u","r","l">>
K_data == <<"d","a","t","a">>
K_link == <<"l","i","n","k">>
K_foo == <<"f","o","o">>
V_baseTag == <<"q","u","a","l","i","t","y","%","2","0","t","a","g">>
V_tags == <<"c","a","t",",","w","a","t","e","r">>
V_tags_pct == <<"a"," ","b","%">>
RQ_tags == <<"t","a","g","s","=","c","a","t","%","2","C","w","a","t","e","r">>
RQ_tags_plus == <<"t","a","g","s","=","a","+","b","%","2","5">>
V_upstreamError == <<"u","p","s","t","r","e","a","m"," ","s","a","y","s",
    " ","n","o">>

(***************************************************************************)
(* Routing tables.  A table is the JSON value POST /config stores:         *)
(* { apiUrls: { key: entry, ... }, baseTag }.  A member that is absent in  *)
(* the JSON is absent here (Undefined members are dropped).                *)
(***************************************************************************)
\* The object with the given <<key, value>> members, those whose value is
\* Undefined left out.
ObjOf(members) ==
  LET present == { i \in 1..Len(members) : members[i][2] # Undefined }
  IN  Obj([k \in { members[i][1] : i \in present } |->
             members[CHOOSE i \in present : members[i][1] = k][2]])

ParamSpec(name, required, defaultValue, validValues) ==
  ObjOf(<< <<K_name, Str(name)>>, <<K_required, Bool(required)>>,
           <<K_defaultValue, defaultValue>>, <<K_validValues, validValues>> >>)

RouteEntry(method, url, construction, queryParams, proxySettings) ==
  ObjOf(<< <<K_method, method>>, <<K_url, url>>,
           <<K_urlConstruction, construction>>,
           <<K_queryParams, queryParams>>,
           <<K_proxySettings, proxySettings>> >>)

SpecKeyword == ParamSpec(P_keyword, TRUE, Undefined, Arr(<<Str(V_a), Str(V_b)>>))
SpecSize    == ParamSpec(P_size, FALSE, Str(V_regular),
                         Arr(<<Str(V_regular), Str(V_small)>>))
SpecR18     == ParamSpec(P_r18, FALSE, Undefined, Undefined)
SpecK       == ParamSpec(P_k, FALSE, Undefined, Undefined)
SpecKDflt   == ParamSpec(P_k, FALSE, Str(V_ab), Undefined)
SpecKwDflt  == ParamSpec(P_keyword, TRUE, Str(V_a), Undefined)
SpecModel   == ParamSpec(K_model, FALSE, Str(S_turbo),
                         Arr(<<Str(S_turbo), Str(V_x)>>))

RoutesA ==
  ObjOf(<<
    \* generic redirect routes
    <<R_tag,   RouteEntry(Str(S_redirect), Str(U_clean), Undefined,
                          Arr(<<SpecKeyword, SpecSize, SpecR18>>), EmptyObj)>>,
    <<R_bare,  RouteEntry(Str(S_redirect), Str(U_bare), Undefined,
                          Arr(<<SpecSize>>), EmptyObj)>>,
    <<R_q,     RouteEntry(Str(S_redirect), Str(U_query), Undefined,
                          Arr(<<SpecK>>), EmptyObj)>>,
    <<R_raw,   RouteEntry(Str(S_redirect), Str(U_raw), Undefined,
                          Arr(<<SpecKDflt>>), EmptyObj)>>,
    <<R_rawq,  RouteEntry(Str(S_redirect), Str(U_rawq), Undefined,
                          Arr(<<SpecK, SpecSize>>), EmptyObj)>>,
    <<R_plain, RouteEntry(Str(S_redirect), Str(U_raw), Undefined,
                          Undefined, Undefined)>>,
    <<R_nourl, RouteEntry(Str(S_redirect), Str(<<>>), Undefined,
                          Arr(<<SpecSize>>), EmptyObj)>>,
    <<R_nomethod, RouteEntry(Undefined, Str(U_clean), Undefined,
                          Arr(<<>>), EmptyObj)>>,
    \* generic proxy routes
    <<R_doro,  RouteEntry(Str(S_proxy), Str(U_up), Undefined, Arr(<<SpecK>>),
                          ObjOf(<< <<K_imageUrlField, Str(F_data_link)>> >>))>>,
    <<R_perr,  RouteEntry(Str(S_proxy), Str(U_up), Undefined, Arr(<<>>),
                          ObjOf(<< <<K_imageUrlField, Str(K_url)>>,
                                   <<K_fallbackAction, Str(S_error)>> >>))>>,
    <<R_pnone, RouteEntry(Str(S_proxy), Str(U_up), Undefined, Undefined,
                          Undefined)>>,
    <<R_pjson, RouteEntry(Str(S_proxy), Str(U_up), Undefined, Arr(<<>>),
                          ObjOf(<< <<K_imageUrlField, Str(F_data_0_url)>>,
                                   <<K_fallbackAction, Str(S_returnJson)>> >>))>>,
    \* special constructions
    <<R_forward, RouteEntry(Str(S_proxy), Undefined, Str(S_special_forward),
                          Arr(<<>>), EmptyObj)>>,
    <<R_flux,  [RouteEntry(Str(S_redirect), Str(U_poll),
                           Str(S_special_pollinations), Arr(<<>>), EmptyObj)
                  EXCEPT !.f = (K_modelName :> Str(S_flux)) @@ @]>>,
    <<R_draw,  RouteEntry(Str(S_redirect), Str(S_slash),
                          Str(S_special_draw_redirect),
                          Arr(<<SpecModel>>), EmptyObj)>>,
    \* a special construction without a resolution mode
    <<R_nomspecial, RouteEntry(Undefined, Undefined, Str(S_special_forward),
                          Arr(<<>>), EmptyObj)>>,
    \* entries under keys the handler passes on
    <<S_config, RouteEntry(Str(S_redirect), Str(U_clean), Undefined,
                          Arr(<<>>), EmptyObj)>>,
    <<S_admin, RouteEntry(Str(S_redirect), Str(U_clean), Undefined,
                          Arr(<<>>), EmptyObj)>>,
    <<R_dotted, RouteEntry(Str(S_redirect), Str(U_clean), Undefined,
                          Arr(<<>>), EmptyObj)>>
  >>)

TableA == Obj(K_apiUrls :> RoutesA @@ K_baseTag :> Str(V_baseTag))

\* A second table: the same key tag with another target and schema (a
\* required parameter that also has a default), a proxy route that
\* reports extraction misses, special routes declared otherwise than in
\* the first table (each with the method its construction does not use
\* and with a schema that requires keyword and restricts size), and no
\* baseTag.
RoutesB ==
  ObjOf(<<
    <<R_tag,  RouteEntry(Str(S_redirect), Str(U_up), Undefined,
                         Arr(<<SpecK, SpecKwDflt>>), EmptyObj)>>,
    <<R_doro, RouteEntry(Str(S_proxy), Str(U_clean), Undefined, Arr(<<>>),
                         ObjOf(<< <<K_fallbackAction, Str(S_error)>> >>))>>,
    \* a base URL whose query already has the parameter of the schema
    <<R_q,    RouteEntry(Str(S_redirect), Str(U_samek), Undefined,
                         Arr(<<SpecKDflt>>), EmptyObj)>>,
    \* a proxy route and a pollinations route without a base URL
    <<R_pnone, RouteEntry(Str(S_proxy), Undefined, Undefined, Arr(<<SpecK>>),
                         EmptyObj)>>,
    <<R_flux, [RouteEntry(Str(S_proxy), Undefined,
                          Str(S_special_pollinations),
                          Arr(<<SpecKeyword, SpecSize>>), EmptyObj)
                 EXCEPT !.f = (K_modelName :> Str(S_turbo)) @@ @]>>,
    \* a forward route with its own default extraction field
    <<R_forward, RouteEntry(Str(S_redirect), Undefined, Str(S_special_forward),
                         Arr(<<SpecKeyword, SpecSize>>),
                         ObjOf(<< <<K_imageUrlFieldFromParamDefault,
                                    Str(F_data_link)>>,
                                  <<K_fallbackAction, Str(S_error)>> >>))>>,
    \* entries under the paths of the login and logout pages
    <<S_admin_login, RouteEntry(Str(S_redirect), Str(U_clean), Undefined,
                         Arr(<<>>), EmptyObj)>>,
    <<S_admin_logout, RouteEntry(Str(S_redirect), Str(U_clean), Undefined,
                         Arr(<<>>), EmptyObj)>>,
    \* a draw alias whose schema declares no model parameter
    <<R_draw, RouteEntry(Str(S_proxy), Str(S_slash),
                         Str(S_special_draw_redirect),
                         Arr(<<SpecKeyword, SpecSize>>), Undefined)>>
  >>)

TableB == Obj(K_apiUrls :> RoutesB)

\* What loadConfig installs when no backend has a table.
EmptyTable == Obj(K_apiUrls :> EmptyObj @@ K_baseTag :> Str(<<>>))

(***************************************************************************)
(* Requests and upstream answers the model draws from                      *)
(***************************************************************************)
Query(members) == ObjOf(members)

\* A query parser that keeps names and values as they stand in the query
\* string.
ReqQuery_raw(raw) ==
  LET pieces == SelectSeq(Split(raw, "&"), LAMBDA x : Len(x) > 0)
      eq(p)  == IndexOf(p, "=")
  IN  Query([i \in 1..Len(pieces) |->
               IF eq(pieces[i]) = 0 THEN <<pieces[i], Str(<<>>)>>
               ELSE <<SubSeq(pieces[i], 1, eq(pieces[i]) - 1),
                      Str(SubSeq(pieces[i], eq(pieces[i]) + 1,
                                 Len(pieces[i])))>>])

\* req.query of a request whose query string is raw, as the query parser
\* of express builds it for plain names: the pieces between &, each split
\* at its first =, + read as a space and the escapes decoded.
ReqQuery(raw) ==
  LET pairs == ParseQueryList(raw)
  IN  Query([i \in 1..Len(pairs) |-> <<pairs[i][1], Str(pairs[i][2])>>])

Q_none       == EmptyObj
Q_kw_a       == Query(<< <<P_keyword, Str(V_a)>> >>)
Q_kw_c       == Query(<< <<P_keyword, Str(V_c)>> >>)
Q_kw_a_small == Query(<< <<P_keyword, Str(V_a)>>, <<P_size, Str(V_small)>> >>)
Q_kw_a_big   == Query(<< <<P_keyword, Str(V_a)>>, <<P_size, Str(V_big)>> >>)
Q_big        == Query(<< <<P_size, Str(V_big)>> >>)
Q_kw_b_extra == Query(<< <<P_keyword, Str(V_b)>>, <<P_r18, Str(V_1)>>,
                         <<P_extra, Str(V_x)>> >>)
Q_k          == Query(<< <<P_k, Str(V_ab)>> >>)
Q_k_empty    == Query(<< <<P_k, Str(<<>>)>> >>)
Q_url        == Query(<< <<K_url, Str(U_up)>> >>)
Q_url_field  == Query(<< <<K_url, Str(U_up)>>, <<K_field, Str(F_data_link)>> >>)
Q_url_sticker == Query(<< <<K_url, Str(U_up)>>,
                          <<K_field, Str(F_sticker_url)>> >>)
Q_url_empty  == Query(<< <<K_url, Str(<<>>)>>, <<K_field, Str(F_data_link)>> >>)
Q_url_nofield == Query(<< <<K_url, Str(U_up)>>, <<K_field, Str(<<>>)>> >>)
Q_url_big    == Query(<< <<K_url, Str(U_up)>>, <<P_size, Str(V_big)>> >>)
Q_tags       == Query(<< <<K_tags, Str(V_tags)>> >>)
Q_tags_big   == Query(<< <<K_tags, Str(V_tags)>>, <<P_size, Str(V_big)>> >>)
Q_tags_empty == Query(<< <<K_tags, Str(<<>>)>> >>)
Q_tags_turbo == Query(<< <<K_tags, Str(V_tags)>>, <<K_model, Str(S_turbo)>> >>)
Q_tags_bad   == Query(<< <<K_tags, Str(V_tags)>>, <<K_model, Str(V_x)>> >>)
Q_tags_flux  == Query(<< <<K_tags, Str(V_tags)>>, <<K_model, Str(S_flux)>> >>)
Q_model_only == Query(<< <<K_model, Str(V_c)>> >>)

GenericKeys == {R_tag, R_bare, R_q, R_raw, R_rawq, R_plain, R_nourl,
                R_nomethod, R_absent}
GenericQueries == {Q_none, Q_kw_a, Q_kw_c, Q_kw_a_small, Q_kw_a_big, Q_big,
                   Q_kw_b_extra, Q_k, Q_k_empty}
ProxyKeys == {R_doro, R_perr, R_pnone, R_pjson}
SystemKeys == {S_config, S_admin, S_admin_html, S_favicon_ico, R_dotted}
LoginKeys == {S_admin_login, S_admin_logout}

\* The <<apiKey, query>> pairs of the inbound GET /{apiKey}?{query}.
RouteRequests ==
  (GenericKeys \X GenericQueries)
    \cup (ProxyKeys \X {Q_none, Q_k})
    \cup ({R_forward, R_nomspecial}
            \X {Q_none, Q_url, Q_url_field, Q_url_sticker, Q_url_empty,
                Q_url_nofield, Q_url_big})
    \cup ({R_flux}
            \X {Q_none, Q_tags_empty, Q_tags_big, ReqQuery(RQ_tags),
                ReqQuery(RQ_tags_plus)})
    \cup ({R_draw}
            \X {Q_none, Q_tags, Q_tags_turbo, Q_tags_bad, Q_tags_flux,
                Q_tags_big, Q_model_only, ReqQuery(RQ_tags_plus)})
    \cup (SystemKeys \X {Q_none})
    \cup (LoginKeys \X {Q_none})

B_sticker   == Obj(K_sticker :> Obj(K_url :> Str(I_png)))
B_datalink  == Obj(K_data :> Obj(K_link :> Str(I_webp)))
B_foo       == Obj(K_foo :> Str(N_notimage))
B_url_upper == Obj(K_url :> Str(I_upper))
B_url_page  == Obj(K_url :> Str(N_page))
B_data_num  == Obj(K_data :> Obj(K_link :> Num(5)))
B_data_null == Obj(K_data :> Null)
B_array     == Obj(K_data :> Arr(<<Obj(K_url :> Str(I_gif))>>))
B_text      == Str(I_png)
B_empty     == Str(<<>>)
B_error     == Obj(K_error :> Str(V_upstreamError))

SuccessBodies == {B_sticker, B_datalink, B_foo, B_url_upper, B_url_page,
                  B_data_num, B_data_null, B_array, B_text, B_empty}
\* Bodies of upstream error answers: empty, a JSON error, and bodies that
\* hold an image URL at the configured field.
ErrorBodies == {B_empty, B_error, B_url_upper, B_datalink}

UpstreamResponse(status, data) ==
  [kind |-> "response", status |-> status, data |-> data]
NoResponse == [kind |-> "noResponse", status |-> 0, data |-> Undefined]
SetupError == [kind |-> "setupError", status |-> 0, data |-> Undefined]

\* What the upstream call of one request may end with.
UpstreamOutcomes ==
  { UpstreamResponse(200, b) : b \in SuccessBodies }
    \cup { UpstreamResponse(201, b) : b \in {B_foo, B_datalink} }
    \cup { UpstreamResponse(st, b) : st \in {404, 500}, b \in ErrorBodies }
    \cup {NoResponse, SetupError}

(***************************************************************************)
(* The configuration endpoints                                             *)
(***************************************************************************)
\* What a backend holds when it holds no table: findOne gives no document,
\* config.json does not exist.
NoData == Null

\* The test of POST /config on req.body.
AcceptsConfig(newConfig) ==
  ~( \/ ~Truthy(newConfig)
     \/ ~TypeofObject(newConfig)
     \/ ~Truthy(GetProp(newConfig, K_apiUrls)) )

\* A replacement that keeps the members the new table does not set.
ReplaceConfig_merge(current, newConfig) ==
  IF current.t = "object" /\ newConfig.t = "object"
  THEN Obj(newConfig.f @@ current.f)
  ELSE newConfig

\* currentConfig = newConfig
ReplaceConfig(current, newConfig) == newConfig

\* JSON.stringify(config, null, 2), the text handed to fs.writeFile.  A
\* table that came in as JSON is written back as the text of the same
\* value; the text is kept as the value it denotes.
ConfigJson(config) == config

\* checkAdminAuth: the cookie api_forward_admin_token equals the token.
AdminToken == Str(S_adminToken)

\* A check that lets every request with an admin cookie through, whatever
\* its value.
checkAdminAuth_present(cookie) == cookie # Undefined

checkAdminAuth(cookie) == cookie = AdminToken

K_success == <<"s","u","c","c","e","s","s">>
P_admin_login == <<"/","a","d","m","i","n","-","l","o","g","i","n">>
\* The 401 message of POST /admin-auth, by the code points of its
\* characters.
Msg_InvalidToken ==
  <<"U+65E0","U+6548","U+7684","U+7BA1","U+7406","U+4EE4","U+724C">>

\* POST /admin-auth with token as the token of its JSON body: the answer,
\* and the value of the admin cookie it sets (res.cookie writes the value
\* through encodeURIComponent), Undefined when it sets none.
adminAuth(token) ==
  IF token = AdminToken
  THEN [resp |-> JsonResponse(200, Obj(K_success :> Bool(TRUE))),
        setCookie |-> Str(encodeURIComponent(token.s))]
  ELSE [resp |-> JsonResponse(401, ErrorBody(Msg_InvalidToken)),
        setCookie |-> Undefined]

\* req.cookies[adminCookieName] for the cookie value the request carries:
\* cookie-parser decodes it.
ReqCookie(sentCookie) ==
  IF sentCookie = Undefined THEN Undefined ELSE Str(PctDecode(sentCookie.s))

Unauthorized == JsonResponse(401, ErrorBody(Msg_Unauthorized))

MessageBody(msg) == Obj(K_message :> Str(msg))

\* An answer after the file write that reports success whenever a MongoDB
\* client exists, whether or not its update went through.
FileWriteResponse_optimistic(v, hasMongo, mongoSuccess, ok) ==
  IF v = "index"
  THEN IF ok THEN JsonResponse(200, MessageBody(Msg_Saved))
       ELSE JsonResponse(500, ErrorBody(Msg_FileFailed))
  ELSE IF ~ok
  THEN IF hasMongo
       THEN JsonResponse(200, MessageBody(Msg_MongoOnlyBackupFailed))
       ELSE JsonResponse(500, ErrorBody(Msg_FileFailedNoMongo))
  ELSE IF hasMongo
  THEN JsonResponse(200, MessageBody(IF mongoSuccess THEN Msg_SavedBoth
                                     ELSE Msg_FileOnlyMongoFailed))
  ELSE JsonResponse(200, MessageBody(Msg_FileOnlyNoMongo))

\* What POST /config answers once the file write has called back
\* (ok: without error).
FileWriteResponse(v, hasMongo, mongoSuccess, ok) ==
  IF v = "index"
  THEN IF ok THEN JsonResponse(200, MessageBody(Msg_Saved))
       ELSE JsonResponse(500, ErrorBody(Msg_FileFailed))
  ELSE IF ~ok
  THEN IF hasMongo /\ ~mongoSuccess
       THEN JsonResponse(500, ErrorBody(Msg_BothFailed))
       ELSE IF hasMongo
       THEN JsonResponse(200, MessageBody(Msg_MongoOnlyBackupFailed))
       ELSE JsonResponse(500, ErrorBody(Msg_FileFailedNoMongo))
  ELSE IF hasMongo
  THEN JsonResponse(200, MessageBody(IF mongoSuccess THEN Msg_SavedBoth
                                     ELSE Msg_FileOnlyMongoFailed))
  ELSE JsonResponse(200, MessageBody(Msg_FileOnlyNoMongo))

\* What POST /config answers at once when file operations are disabled.
NoFileResponse(hasMongo, mongoSuccess) ==
  IF hasMongo
  THEN IF mongoSuccess THEN JsonResponse(200, MessageBody(Msg_SavedMongo))
       ELSE JsonResponse(500, ErrorBody(Msg_MongoFailed))
  ELSE JsonResponse(500, ErrorBody(Msg_NoStorage))

(***************************************************************************)
(* State                                                                   *)
(***************************************************************************)
VARIABLES
  variant,        \* which variant of the file runs
  currentConfig,  \* let currentConfig: the in-memory routing table
  mongoClient,    \* const mongoClient is a client (TRUE) or null (FALSE)
  enableFileOperations,  \* const enableFileOperations
  mongoStore,     \* the data of the document of the MongoDB collection
  fileStore,      \* the content of config.json
  reqs,           \* the route requests, one per connection slot
  gets,           \* the GET /config requests, one per connection slot
  posts,          \* the POST /config requests, one per connection slot
  swaps,          \* how many times currentConfig was replaced
  load,           \* the run of loadConfig at startup, then the listening server
  jar             \* the administrator's browser: its cookie, its last login

vars == <<variant, currentConfig, mongoClient, enableFileOperations,
          mongoStore, fileStore, reqs, gets, posts, swaps, load, jar>>

environment == <<variant, mongoClient, enableFileOperations>>
stores == <<mongoStore, fileStore>>

\* The number of connection slots of the concurrent specifications.
MaxInFlight == 2

\* The number of replacements of the table a behaviour goes through.
MaxSwaps == 2

Slots == 1..MaxInFlight

\* The run of loadConfig: where it stands (start, connect, findOne, seed,
\* close, and listening once it has returned and app.listen was called),
\* its local configLoaded, the document findOne gave and the value read
\* from config.json (Undefined while there is none).
NotLoaded ==
  [pc |-> "start", configLoaded |-> FALSE, doc |-> Undefined,
   fileRead |-> Undefined]

\* loadConfig has returned with the table of the document doc, or else of
\* the file, or else with the empty table.
Booted(doc, fileRead) ==
  [pc |-> "listening", configLoaded |-> Truthy(doc) \/ Truthy(fileRead),
   doc |-> doc, fileRead |-> IF Truthy(doc) THEN Undefined ELSE fileRead]

\* A server that calls app.listen without awaiting loadConfig: it takes
\* requests from the start.
Listening_atOnce == TRUE

\* The server accepts requests.
Listening == load.pc = "listening"

\* A slot with no request.
IdleReq ==
  [pc |-> "idle", apiKey |-> <<>>, query |-> Undefined, table |-> Undefined,
   targetUrl |-> Undefined, proxySettings |-> Undefined,
   outcome |-> Undefined, declined |-> FALSE, resp |-> Undefined,
   calls |-> 0, sent |-> 0, swapNo |-> 0]

IdleGet ==
  [pc |-> "idle", cookie |-> Undefined, resp |-> Undefined, swapNo |-> 0]

\* The browser before any login: no cookie, nothing submitted, no answer.
NoSession == [cookie |-> Undefined, token |-> Undefined, resp |-> Undefined]

IdlePost ==
  [pc |-> "idle", body |-> Undefined, cookie |-> Undefined,
   mongoSuccess |-> FALSE,
   mongoData |-> Undefined, fileData |-> Undefined, fileSuccess |-> FALSE,
   interrupted |-> FALSE, resp |-> Undefined, sent |-> 0, swapNo |-> 0]

(***************************************************************************)
(* Actions: route requests                                                 *)
(***************************************************************************)
\* The slots other than r whose upstream call is pending.
Pending(r) == { s \in Slots \ {r} : reqs[s].pc = "awaiting" }

\* GET /{apiKey}?{query} arrives on slot r: the wildcard handler runs to
\* its response, its next() or the await of its upstream call.  table
\* records the routing table the lookup read.
\* A handler that shares an upstream call: a request whose target another
\* pending request is already fetching issues no call of its own.
RouteRequest_coalesced(r, apiKey, query) ==
  /\ Listening
  /\ reqs[r].pc = "idle" /\ gets[r].pc = "idle"
  /\ LET h == RouteHandler(variant, currentConfig, apiKey, query)
         shared == \E s \in Pending(r) : reqs[s].targetUrl = h.targetUrl
     IN  reqs' = [reqs EXCEPT ![r] =
           [pc |-> IF h.kind = "proxy" THEN "awaiting" ELSE "done",
            apiKey |-> apiKey, query |-> query, table |-> currentConfig,
            targetUrl |-> h.targetUrl, proxySettings |-> h.proxySettings,
            outcome |-> Undefined,
            declined |-> h.kind = "next",
            resp |-> h.resp,
            calls |-> IF h.kind = "proxy" /\ ~shared THEN 1 ELSE 0,
            sent |-> IF h.kind = "respond" THEN 1 ELSE 0,
            swapNo |-> swaps]]
  /\ UNCHANGED <<environment, jar, load, currentConfig, stores, gets, posts, swaps>>

RouteRequest(r, apiKey, query) ==
  /\ Listening
  /\ reqs[r].pc = "idle" /\ gets[r].pc = "idle"
  /\ LET h == RouteHandler(variant, currentConfig, apiKey, query)
     IN  reqs' = [reqs EXCEPT ![r] =
           [pc |-> IF h.kind = "proxy" THEN "awaiting" ELSE "done",
            apiKey |-> apiKey, query |-> query, table |-> currentConfig,
            targetUrl |-> h.targetUrl, proxySettings |-> h.proxySettings,
            outcome |-> Undefined,
            declined |-> h.kind = "next",
            resp |-> h.resp,
            calls |-> IF h.kind = "proxy" THEN 1 ELSE 0,
            sent |-> IF h.kind = "respond" THEN 1 ELSE 0,
            swapNo |-> swaps]]
  /\ UNCHANGED <<environment, jar, load, currentConfig, stores, gets, posts, swaps>>

\* A settling whose catch block only logs: an upstream call that failed
\* without a response ends the handler with nothing sent.
UpstreamSettles_silent(r, outcome) ==
  /\ reqs[r].pc = "awaiting"
  /\ reqs' = [reqs EXCEPT ![r] =
       IF outcome = NoResponse
       THEN [@ EXCEPT !.pc = "done", !.outcome = outcome]
       ELSE [@ EXCEPT !.pc = "done", !.outcome = outcome, !.sent = @ + 1,
                      !.resp = handleProxyRequest(reqs[r].targetUrl,
                                 reqs[r].proxySettings, outcome)]]
  /\ UNCHANGED <<environment, jar, load, currentConfig, stores, gets, posts, swaps>>

\* A settling that reads the proxy settings of the route again, from the
\* table in memory when the upstream call settles.
UpstreamSettles_reread(r, outcome) ==
  /\ reqs[r].pc = "awaiting"
  /\ reqs' = [reqs EXCEPT ![r] =
       [@ EXCEPT !.pc = "done", !.outcome = outcome, !.sent = @ + 1,
                 !.resp = handleProxyRequest(reqs[r].targetUrl,
                            GetProp(LookupEntry(currentConfig, reqs[r].apiKey),
                                    K_proxySettings),
                            outcome)]]
  /\ UNCHANGED <<environment, jar, load, currentConfig, stores, gets, posts, swaps>>

\* A settling that serves the upstream calls in the order of the slots: a
\* call settles only when no call of a lower slot is pending.
UpstreamSettles_inTurn(r, outcome) ==
  /\ reqs[r].pc = "awaiting"
  /\ \A s \in 1..(r - 1) : reqs[s].pc # "awaiting"
  /\ reqs' = [reqs EXCEPT ![r] =
       [@ EXCEPT !.pc = "done", !.outcome = outcome, !.sent = @ + 1,
                 !.resp = handleProxyRequest(reqs[r].targetUrl,
                                             reqs[r].proxySettings, outcome)]]
  /\ UNCHANGED <<environment, jar, load, currentConfig, stores, gets, posts, swaps>>

\* The upstream call of slot r settles with outcome and handleProxyRequest
\* sends its response.
UpstreamSettles(r, outcome) ==
  /\ reqs[r].pc = "awaiting"
  /\ reqs' = [reqs EXCEPT ![r] =
       [@ EXCEPT !.pc = "done", !.outcome = outcome, !.sent = @ + 1,
                 !.resp = handleProxyRequest(reqs[r].targetUrl,
                                             reqs[r].proxySettings, outcome)]]
  /\ UNCHANGED <<environment, jar, load, currentConfig, stores, gets, posts, swaps>>

\* The exchange of slot r is over (the response was delivered, or the
\* handler next() passed to has answered): the slot is free again.
Complete(r) ==
  /\ reqs[r].pc = "done"
  /\ reqs' = [reqs EXCEPT ![r] = IdleReq]
  /\ UNCHANGED <<environment, jar, load, currentConfig, stores, gets, posts, swaps>>

(***************************************************************************)
(* Actions: loadConfig at startup                                          *)
(***************************************************************************)
\* The content of config.json when it is no JSON text.
CorruptFile == [t |-> "invalid"]

\* fs.readFileSync and JSON.parse of config.json: the value, or a throw
\* when the file does not exist or does not parse.
ReadConfigFile(content) ==
  IF content = NoData \/ content = CorruptFile
  THEN [ok |-> FALSE, value |-> Undefined]
  ELSE [ok |-> TRUE, value |-> content]

\* The end of loadConfig: the file when nothing was loaded and file
\* operations are enabled, then the empty table when nothing was loaded.
\* Gives the table in memory and the record of the run.
FileFallback(l, config, content) ==
  LET f       == ReadConfigFile(content)
      fromFile == ~l.configLoaded /\ enableFileOperations /\ f.ok
      loaded  == l.configLoaded \/ fromFile
  IN  [config |-> IF fromFile THEN f.value
                  ELSE IF ~loaded THEN EmptyTable
                  ELSE config,
       load   |-> [l EXCEPT !.pc = "listening", !.configLoaded = loaded,
                            !.fileRead = IF fromFile THEN f.value ELSE @]]

\* loadConfig of the file-only server: synchronous, the file or the empty
\* table; the server listens afterwards.
LoadConfigSync ==
  /\ variant = "index"
  /\ load.pc = "start"
  /\ LET f == ReadConfigFile(fileStore)
     IN  /\ currentConfig' = IF f.ok THEN f.value ELSE EmptyTable
         /\ load' = [load EXCEPT !.pc = "listening", !.configLoaded = f.ok,
                                 !.fileRead = f.value]
  /\ UNCHANGED <<environment, jar, stores, reqs, gets, posts, swaps>>

\* loadConfig of the servers with MongoDB is called: it runs to the await
\* of the connect, or, without a client, to its end.
LoadConfig ==
  /\ variant # "index"
  /\ load.pc = "start"
  /\ IF mongoClient
     THEN /\ load' = [load EXCEPT !.pc = "connect"]
          /\ UNCHANGED currentConfig
     ELSE LET end == FileFallback(load, currentConfig, fileStore)
          IN  /\ load' = end.load
              /\ currentConfig' = end.config
  /\ UNCHANGED <<environment, jar, stores, reqs, gets, posts, swaps>>

\* await mongoClient.connect() settles.
LoadConnected(ok) ==
  /\ load.pc = "connect"
  /\ load' = [load EXCEPT !.pc = IF ok THEN "findOne" ELSE "close"]
  /\ UNCHANGED <<environment, jar, currentConfig, stores, reqs, gets, posts, swaps>>

\* await collection.findOne({}) settles.  With a document that has data
\* the table is its data, backed up to the file when file operations are
\* enabled (backupOk: the write went through).  Without one the file is
\* read wherever it exists, and its table is then written to MongoDB.
LoadFound(ok, backupOk) ==
  /\ load.pc = "findOne"
  /\ IF ~ok
     THEN /\ load' = [load EXCEPT !.pc = "close"]
          /\ UNCHANGED <<currentConfig, fileStore>>
     ELSE IF Truthy(mongoStore)
     THEN /\ currentConfig' = mongoStore
          /\ load' = [load EXCEPT !.pc = "close", !.configLoaded = TRUE,
                                  !.doc = mongoStore]
          /\ fileStore' = IF enableFileOperations /\ backupOk
                          THEN ConfigJson(mongoStore) ELSE fileStore
     ELSE LET f == ReadConfigFile(fileStore)
          IN  /\ currentConfig' = IF f.ok THEN f.value ELSE currentConfig
              /\ load' = [load EXCEPT !.pc = IF f.ok THEN "seed" ELSE "close",
                                      !.doc = NoData, !.fileRead = f.value]
              /\ UNCHANGED fileStore
  /\ UNCHANGED <<environment, jar, mongoStore, reqs, gets, posts, swaps>>

\* await collection.updateOne(...) of the table read from the file
\* settles; configLoaded is set after it.
LoadSeeded(ok) ==
  /\ load.pc = "seed"
  /\ mongoStore' = IF ok THEN currentConfig ELSE mongoStore
  /\ load' = [load EXCEPT !.pc = "close", !.configLoaded = ok]
  /\ UNCHANGED <<environment, jar, currentConfig, fileStore, reqs, gets, posts,
                 swaps>>

\* await mongoClient.close() settles and loadConfig runs to its end.
LoadClosed ==
  /\ load.pc = "close"
  /\ LET end == FileFallback(load, currentConfig, fileStore)
     IN  /\ load' = end.load
         /\ currentConfig' = end.config
  /\ UNCHANGED <<environment, jar, stores, reqs, gets, posts, swaps>>

(***************************************************************************)
(* Actions: GET /config and POST /config                                   *)
(***************************************************************************)
\* A GET /config that saves what it reads: it writes the table in memory
\* to config.json before it sends it.
GetConfig_saving(g, cookie) ==
  /\ Listening
  /\ gets[g].pc = "idle" /\ reqs[g].pc = "idle"
  /\ gets' = [gets EXCEPT ![g] =
       [pc |-> "done", cookie |-> cookie,
        resp |-> IF variant = "auth" /\ ~checkAdminAuth(cookie)
                 THEN Unauthorized
                 ELSE JsonResponse(200, currentConfig),
        swapNo |-> swaps]]
  /\ fileStore' = ConfigJson(currentConfig)
  /\ UNCHANGED <<environment, jar, load, currentConfig, mongoStore, reqs, posts,
                 swaps>>

\* GET /config arrives on slot g with the given admin cookie: behind
\* checkAdminAuth in the variant "auth", it sends the table in memory.
GetConfig(g, cookie) ==
  /\ Listening
  /\ gets[g].pc = "idle" /\ reqs[g].pc = "idle"
  /\ gets' = [gets EXCEPT ![g] =
       [pc |-> "done", cookie |-> cookie,
        resp |-> IF variant = "auth" /\ ~checkAdminAuth(cookie)
                 THEN Unauthorized
                 ELSE JsonResponse(200, currentConfig),
        swapNo |-> swaps]]
  /\ UNCHANGED <<environment, jar, load, currentConfig, stores, reqs, posts, swaps>>

GetComplete(g) ==
  /\ gets[g].pc = "done"
  /\ gets' = [gets EXCEPT ![g] = IdleGet]
  /\ UNCHANGED <<environment, jar, load, currentConfig, stores, reqs, posts, swaps>>

\* POST /config arrives on slot p with body as req.body: the handler runs
\* to its 401 or 400, or replaces the table and runs to its first await
\* (the connect of the MongoDB client, or the write of the file), or to
\* its answer when there is no backend.
PostConfig(p, body, cookie) ==
  /\ Listening
  /\ posts[p].pc = "idle"
  /\ swaps < MaxSwaps
  /\ IF variant = "auth" /\ ~checkAdminAuth(cookie)
     THEN /\ posts' = [posts EXCEPT ![p] =
                 [IdlePost EXCEPT !.pc = "done", !.body = body,
                                  !.cookie = cookie,
                                  !.resp = Unauthorized, !.sent = 1,
                                  !.swapNo = swaps]]
          /\ UNCHANGED <<currentConfig, swaps>>
     ELSE IF ~AcceptsConfig(body)
     THEN /\ posts' = [posts EXCEPT ![p] =
                 [IdlePost EXCEPT !.pc = "done", !.body = body,
                    !.cookie = cookie,
                    !.resp = JsonResponse(400, ErrorBody(Msg_InvalidConfig)),
                    !.sent = 1, !.swapNo = swaps]]
          /\ UNCHANGED <<currentConfig, swaps>>
     ELSE LET installed == ReplaceConfig(currentConfig, body)
              started   == [IdlePost EXCEPT !.body = body, !.cookie = cookie,
                                            !.swapNo = swaps + 1]
          IN  /\ currentConfig' = installed
              /\ swaps' = swaps + 1
              /\ posts' = [posts EXCEPT ![p] =
                   IF variant # "index" /\ mongoClient
                   THEN [started EXCEPT !.pc = "mongoConnect"]
                   ELSE IF variant = "index" \/ enableFileOperations
                   THEN [started EXCEPT !.pc = "fileWrite",
                                        !.fileData = ConfigJson(installed)]
                   ELSE [started EXCEPT !.pc = "done", !.sent = 1,
                           !.resp = NoFileResponse(FALSE, FALSE)]]
  /\ UNCHANGED <<environment, jar, load, stores, reqs, gets>>

\* await mongoClient.connect() settles.  On success updateOne is called
\* with the table in memory at that moment; on failure the catch block
\* logs and the finally block closes the client.
MongoConnected(p, ok) ==
  /\ posts[p].pc = "mongoConnect"
  /\ posts' = [posts EXCEPT ![p] =
       IF ok THEN [@ EXCEPT !.pc = "mongoUpdate", !.mongoData = currentConfig]
       ELSE [@ EXCEPT !.pc = "mongoClose"]]
  /\ UNCHANGED <<environment, jar, load, currentConfig, stores, reqs, gets, swaps>>

\* await collection.updateOne(...) settles.
MongoUpdated(p, ok) ==
  /\ posts[p].pc = "mongoUpdate"
  /\ mongoStore' = IF ok THEN posts[p].mongoData ELSE mongoStore
  /\ posts' = [posts EXCEPT ![p] =
       [@ EXCEPT !.pc = "mongoClose", !.mongoSuccess = ok]]
  /\ UNCHANGED <<environment, jar, load, currentConfig, fileStore, reqs, gets, swaps>>

\* await mongoClient.close() settles (an error is logged and dropped):
\* the handler writes the file, or answers when file operations are off.
\* The client is the one client of the process: the updateOne another
\* request has in flight on it is interrupted by the close.
MongoClosed(p) ==
  /\ posts[p].pc = "mongoClose"
  /\ posts' = [q \in Slots |->
       IF q = p
       THEN IF enableFileOperations
            THEN [posts[p] EXCEPT !.pc = "fileWrite",
                                  !.fileData = ConfigJson(currentConfig)]
            ELSE [posts[p] EXCEPT !.pc = "done", !.sent = @ + 1,
                    !.resp = NoFileResponse(TRUE, posts[p].mongoSuccess)]
       ELSE IF posts[q].pc = "mongoUpdate"
       THEN [posts[q] EXCEPT !.interrupted = TRUE]
       ELSE posts[q]]
  /\ UNCHANGED <<environment, jar, load, currentConfig, stores, reqs, gets, swaps>>

\* fs.writeFile calls back, without error (ok, kept as fileSuccess) or
\* with one.
FileWritten(p, ok) ==
  /\ posts[p].pc = "fileWrite"
  /\ fileStore' = IF ok THEN posts[p].fileData ELSE fileStore
  /\ posts' = [posts EXCEPT ![p] =
       [@ EXCEPT !.pc = "done", !.fileSuccess = ok, !.sent = @ + 1,
                 !.resp = FileWriteResponse(variant,
                            variant # "index" /\ mongoClient,
                            posts[p].mongoSuccess, ok)]]
  /\ UNCHANGED <<environment, jar, load, currentConfig, mongoStore, reqs, gets, swaps>>

PostComplete(p) ==
  /\ posts[p].pc = "done"
  /\ posts' = [posts EXCEPT ![p] = IdlePost]
  /\ UNCHANGED <<environment, jar, load, currentConfig, stores, reqs, gets, swaps>>

(***************************************************************************)
(* Actions: the login of the administrator (variant "auth")                *)
(***************************************************************************)
\* POST /admin-auth arrives with the token: the browser keeps the cookie
\* the answer sets.
AdminAuth(token) ==
  /\ Listening
  /\ variant = "auth"
  /\ LET a == adminAuth(token)
     IN  jar' = [cookie |-> IF a.setCookie = Undefined THEN jar.cookie
                            ELSE a.setCookie,
                 token |-> token, resp |-> a.resp]
  /\ UNCHANGED <<load, environment, currentConfig, stores, reqs, gets, posts,
                 swaps>>

\* GET /admin-logout, once the wildcard handler registered before it has
\* passed the request on: res.clearCookie and a redirect to the login page.
AdminLogout ==
  /\ Listening
  /\ variant = "auth"
  /\ RouteHandler(variant, currentConfig, S_admin_logout, Q_none) = PassToNext
  /\ jar' = [cookie |-> Undefined, token |-> Undefined,
             resp |-> RedirectResponse(Str(P_admin_login))]
  /\ UNCHANGED <<load, environment, currentConfig, stores, reqs, gets, posts,
                 swaps>>

(***************************************************************************)
(* Spec: the route engine serving one request at a time on a table that    *)
(* does not change                                                         *)
(***************************************************************************)
RouteTables == {TableA, TableB}

NoRequests ==
  /\ reqs = [r \in Slots |-> IdleReq]
  /\ gets = [r \in Slots |-> IdleGet]
  /\ posts = [r \in Slots |-> IdlePost]
  /\ swaps = 0
  /\ jar = NoSession

Init ==
  /\ variant \in Variants
  /\ currentConfig \in RouteTables
  /\ mongoClient = FALSE
  /\ enableFileOperations = TRUE
  /\ mongoStore = NoData
  /\ fileStore = ConfigJson(currentConfig)
  /\ load = Booted(Undefined, currentConfig)
  /\ NoRequests

Next ==
  \/ \E rq \in RouteRequests : RouteRequest(1, rq[1], rq[2])
  \/ \E o \in UpstreamOutcomes : UpstreamSettles(1, o)
  \/ Complete(1)

Spec == Init /\ [][Next]_vars

(***************************************************************************)
(* SpecConfig: one client sending route requests and GET /config, one      *)
(* after the other, while an administrator posts tables                    *)
(***************************************************************************)
\* {"apiUrls":"x"}, {"baseTag":"x"}, {"apiUrls":null} and [] as bodies.
BodyStringRoutes == Obj(K_apiUrls :> Str(S_x))
BodyNoRoutes     == Obj(K_baseTag :> Str(S_x))
BodyNullRoutes   == Obj(K_apiUrls :> Null)
BodyArray        == Arr(<<>>)

PostBodies ==
  {TableA, TableB, BodyStringRoutes, BodyNoRoutes, BodyNullRoutes,
   BodyArray, EmptyObj, Undefined}

Cookies == {AdminToken, Str(S_guess), Undefined}

\* The admin cookies a request may carry as the variant v sees them: only
\* the variant with admin authentication parses cookies.
CookiesOf(v) == IF v = "auth" THEN Cookies ELSE {Undefined}

ConfigRouteRequests ==
  { <<R_tag, Q_kw_a>>, <<R_tag, Q_k>>, <<R_doro, Q_none>>,
    <<R_flux, Q_tags>> }

ConfigOutcomes == {UpstreamResponse(200, B_datalink), NoResponse}

\* The server after a start with healthy backends: src/index.js has the
\* file only; the other variants have the table in MongoDB when there is a
\* client (and its copy in the file when file operations are on), in the
\* file when that is the only backend, and the empty table when there is
\* no backend.
InitConfig ==
  /\ variant \in Variants
  /\ mongoClient \in (IF variant = "index" THEN {FALSE} ELSE BOOLEAN)
  /\ enableFileOperations \in (IF variant = "index" THEN {TRUE} ELSE BOOLEAN)
  /\ mongoStore = (IF mongoClient THEN TableA ELSE NoData)
  /\ fileStore = (IF enableFileOperations THEN ConfigJson(TableA) ELSE NoData)
  /\ currentConfig =
       (IF mongoClient \/ enableFileOperations THEN TableA ELSE EmptyTable)
  /\ load = Booted(IF mongoClient THEN TableA ELSE Undefined,
                   IF enableFileOperations THEN TableA ELSE Undefined)
  /\ NoRequests

NextConfig ==
  \/ \E rq \in ConfigRouteRequests : RouteRequest(1, rq[1], rq[2])
  \/ \E o \in ConfigOutcomes : UpstreamSettles(1, o)
  \/ Complete(1)
  \/ \E c \in CookiesOf(variant) : GetConfig(1, c)
  \/ GetComplete(1)
  \/ \E b \in PostBodies, c \in CookiesOf(variant) : PostConfig(1, b, c)
  \/ \E ok \in BOOLEAN : MongoConnected(1, ok)
  \/ \E ok \in BOOLEAN : MongoUpdated(1, ok)
  \/ MongoClosed(1)
  \/ \E ok \in BOOLEAN : FileWritten(1, ok)
  \/ PostComplete(1)

SpecConfig == InitConfig /\ [][NextConfig]_vars

(***************************************************************************)
(* SpecLoad: the server from its start.  loadConfig runs against every     *)
(* combination of a MongoDB client present or not, file operations on or   *)
(* off, a document present or not, config.json present, absent or          *)
(* unreadable, and every outcome of connect, findOne, updateOne and the    *)
(* backup write; the server then serves route requests and GET /config     *)
(* from the table it loaded.                                               *)
(***************************************************************************)
InitLoad ==
  /\ variant \in Variants
  /\ mongoClient \in (IF variant = "index" THEN {FALSE} ELSE BOOLEAN)
  /\ enableFileOperations \in (IF variant = "index" THEN {TRUE} ELSE BOOLEAN)
  /\ mongoStore \in (IF mongoClient THEN {NoData, TableA} ELSE {NoData})
  /\ fileStore \in {NoData, ConfigJson(TableB), CorruptFile}
  /\ currentConfig = EmptyObj
  /\ load = NotLoaded
  /\ NoRequests

NextLoad ==
  \/ LoadConfigSync
  \/ LoadConfig
  \/ \E ok \in BOOLEAN : LoadConnected(ok)
  \/ \E ok \in BOOLEAN, backupOk \in BOOLEAN : LoadFound(ok, backupOk)
  \/ \E ok \in BOOLEAN : LoadSeeded(ok)
  \/ LoadClosed
  \/ \E rq \in ConfigRouteRequests : RouteRequest(1, rq[1], rq[2])
  \/ \E o \in ConfigOutcomes : UpstreamSettles(1, o)
  \/ Complete(1)
  \/ \E c \in CookiesOf(variant) : GetConfig(1, c)
  \/ GetComplete(1)

SpecLoad == InitLoad /\ [][NextLoad]_vars

(***************************************************************************)
(* SpecConc: route requests on every connection slot at once, each with    *)
(* its own upstream call.  FairConc adds that the upstream call of the     *)
(* last slot settles: axios.get is called with timeout 15000, so it        *)
(* resolves or rejects; nothing is assumed of the calls of the other       *)
(* slots, which may stay pending for ever.                                 *)
(***************************************************************************)
ConcRouteRequests ==
  { <<R_doro, Q_none>>, <<R_perr, Q_none>>, <<R_tag, Q_kw_a>> }

ConcOutcomes ==
  { UpstreamResponse(200, B_datalink), UpstreamResponse(404, B_error),
    NoResponse }

NextConc ==
  \/ \E r \in Slots, rq \in ConcRouteRequests : RouteRequest(r, rq[1], rq[2])
  \/ \E r \in Slots, o \in ConcOutcomes : UpstreamSettles(r, o)
  \/ \E r \in Slots : Complete(r)

SpecConc == Init /\ [][NextConc]_vars

\* The slot of the request whose completion is looked at.
LastSlot == MaxInFlight

FairConc ==
  SpecConc /\ WF_vars(\E o \in ConcOutcomes : UpstreamSettles(LastSlot, o))

(***************************************************************************)
(* Properties of the upstream call (handleProxyRequest)                    *)
(***************************************************************************)
\* Slot r holds a request whose upstream call has settled and whose
\* response was sent by handleProxyRequest.
Answered(r) == reqs[r].pc = "done" /\ reqs[r].outcome # Undefined

\* The upstream of slot r answered with a status below 400.
AnsweredBelow400(r) ==
  /\ Answered(r)
  /\ reqs[r].outcome.kind = "response"
  /\ reqs[r].outcome.status < 400

\* The proxySettings slot r was dispatched with ({} when the route has none).
SettingsOf(r) ==
  IF reqs[r].proxySettings = Undefined THEN EmptyObj ELSE reqs[r].proxySettings

FieldOf(r) == GetProp(SettingsOf(r), K_imageUrlField)

\* The <<field path, upstream body, image URL>> triples of the model's
\* inputs: the body holds the image URL, a string with an image extension,
\* at the path.  No other pair of a field path and a body of the model
\* does.
PathHits ==
  { <<F_data_link, B_datalink, I_webp>>,
    <<K_url, B_url_upper, I_upper>>,
    <<F_data_0_url, B_array, I_gif>>,
    <<F_sticker_url, B_sticker, I_png>> }

HitOf(r) ==
  { t \in PathHits : FieldOf(r) = Str(t[1]) /\ reqs[r].outcome.data = t[2] }

\* C1 as stated: a body that holds an image URL at sticker.url is answered
\* with a redirect to it whenever the upstream answered below 400, whether
\* or not the route configures a field path (the heuristic search of the
\* containers finds it).
C1_HeuristicFallback ==
  \A r \in Slots :
    (AnsweredBelow400(r) /\ reqs[r].outcome.data = B_sticker)
      => reqs[r].resp = RedirectResponse(Str(I_png))

\* C1 amended: extraction uses the configured field path and nothing else.
\* With no imageUrlField a proxy request never ends in a redirect: it is
\* answered 404 under fallbackAction error and with the raw body otherwise;
\* the body {"sticker":{"url":"https://x.com/a.png"}} leads to a redirect
\* exactly when the field path is sticker.url.
C1_ExplicitFieldOnly ==
  \A r \in Slots :
    AnsweredBelow400(r) =>
      /\ ~Truthy(FieldOf(r)) =>
           /\ reqs[r].resp.kind = "json"
           /\ IF GetProp(SettingsOf(r), K_fallbackAction) = Str(S_error)
              THEN reqs[r].resp.status = 404
              ELSE reqs[r].resp = JsonResponse(200, reqs[r].outcome.data)
      /\ reqs[r].outcome.data = B_sticker =>
           IF FieldOf(r) = Str(F_sticker_url)
           THEN reqs[r].resp = RedirectResponse(Str(I_png))
           ELSE reqs[r].resp.kind = "json"

\* The sticker body arrived on a route with no proxySettings and was sent
\* back as it came.
C1_Witness ==
  \E r \in Slots :
    /\ AnsweredBelow400(r)
    /\ reqs[r].proxySettings = Undefined
    /\ reqs[r].outcome.data = B_sticker
    /\ reqs[r].resp = JsonResponse(200, B_sticker)

\* C6: when the upstream answered below 400 and the body holds no image
\* URL at the configured path, the response is 404 with a structured error
\* under fallbackAction error and the raw upstream body with status 200 in
\* every other case; so a 404 for a miss comes only with the error policy.
C6_FallbackAction ==
  \A r \in Slots :
    (AnsweredBelow400(r) /\ HitOf(r) = {}) =>
      IF GetProp(SettingsOf(r), K_fallbackAction) = Str(S_error)
      THEN /\ reqs[r].resp.kind = "json"
           /\ reqs[r].resp.status = 404
           /\ GetProp(reqs[r].resp.body, K_error) = Str(Msg_ExtractFailed)
           /\ GetProp(reqs[r].resp.body, K_targetUrl) = reqs[r].targetUrl
      ELSE reqs[r].resp = JsonResponse(200, reqs[r].outcome.data)

\* Both sides of C6 on the same miss: a 404 on the route with the error
\* policy, or the raw body of a 201 answer sent with status 200.
C6_Witness ==
  \E r \in Slots :
    /\ AnsweredBelow400(r) /\ HitOf(r) = {}
    /\ \/ /\ reqs[r].apiKey = R_perr
          /\ reqs[r].outcome.data = B_url_page
          /\ reqs[r].resp.status = 404
       \/ /\ reqs[r].apiKey = R_pjson
          /\ reqs[r].outcome = UpstreamResponse(201, B_foo)
          /\ reqs[r].resp = JsonResponse(200, B_foo)

\* C7: an upstream status of 400 or above reaches the client unchanged,
\* with the upstream body, or with a synthesized error body when that body
\* is empty; no redirect is made from it and the fallback action does not
\* replace it, even when the body holds an image URL at the configured path.
C7_UpstreamErrorForwarded ==
  \A r \in Slots :
    (Answered(r) /\ reqs[r].outcome.kind = "response"
       /\ reqs[r].outcome.status >= 400) =>
      /\ reqs[r].resp.kind = "json"
      /\ reqs[r].resp.status = reqs[r].outcome.status
      /\ IF Truthy(reqs[r].outcome.data)
         THEN reqs[r].resp.body = reqs[r].outcome.data
         ELSE /\ reqs[r].resp.body.t = "object"
              /\ DOMAIN reqs[r].resp.body.f = {K_error}
              /\ Truthy(GetProp(reqs[r].resp.body, K_error))

\* A 404 whose body holds an image URL at the route's field path was
\* forwarded as a 404.
C7_Witness ==
  \E r \in Slots :
    /\ Answered(r)
    /\ reqs[r].outcome = UpstreamResponse(404, B_url_upper)
    /\ HitOf(r) # {}
    /\ reqs[r].resp = JsonResponse(404, B_url_upper)

\* C8: an upstream call that gets no response is answered 504, one that
\* fails before anything was sent is answered 500, and in both cases the
\* upstream was called once.
C8_NoResponse ==
  \A r \in Slots :
    Answered(r) =>
      /\ reqs[r].outcome.kind = "noResponse" =>
           /\ reqs[r].resp.kind = "json" /\ reqs[r].resp.status = 504
           /\ reqs[r].calls = 1
      /\ reqs[r].outcome.kind = "setupError" =>
           /\ reqs[r].resp.kind = "json" /\ reqs[r].resp.status = 500
           /\ reqs[r].calls = 1

C8_Witness ==
  \E r \in Slots :
    /\ Answered(r)
    /\ reqs[r].outcome.kind = "noResponse"
    /\ reqs[r].resp.status = 504
    /\ reqs[r].calls = 1

\* C9: with a field path configured, the response is a redirect to the
\* string the body holds at the path when that string has an image
\* extension, and the fallback answer (never an error of the engine) for
\* every other body: a missing segment, a null or non-object intermediate,
\* a value that is not a string, a string without an image extension, a
\* body that is not an object.
C9_ExplicitPath ==
  \A r \in Slots :
    (AnsweredBelow400(r) /\ Truthy(FieldOf(r))) =>
      IF HitOf(r) # {}
      THEN \E t \in HitOf(r) : reqs[r].resp = RedirectResponse(Str(t[3]))
      ELSE /\ reqs[r].resp.kind = "json"
           /\ reqs[r].resp.status \in {200, 404}

\* data.link found the .webp URL, or the path found nothing in
\* {"foo":"not-an-image"}.
C9_Witness ==
  \E r \in Slots :
    /\ AnsweredBelow400(r)
    /\ FieldOf(r) = Str(F_data_link)
    /\ reqs[r].outcome.data = B_datalink
    /\ reqs[r].resp = RedirectResponse(Str(I_webp))

C9_WitnessMiss ==
  \E r \in Slots :
    /\ AnsweredBelow400(r)
    /\ FieldOf(r) = Str(F_data_link)
    /\ reqs[r].outcome.data = B_foo
    /\ reqs[r].resp = JsonResponse(200, B_foo)

(***************************************************************************)
(* Properties of the wildcard handler                                      *)
(***************************************************************************)
\* Slot r holds a request the wildcard handler has run for.
Routed(r) == reqs[r].pc # "idle"

\* The table entry under the key of slot r, in the table the handler read.
EntryOf(r) == GetProp(GetProp(reqs[r].table, K_apiUrls), reqs[r].apiKey)

\* Slot r asked for a generic route (not a system key, no special
\* construction) that the table defines with a method.
OnGenericRoute(r) ==
  /\ Routed(r)
  /\ reqs[r].apiKey \in GenericKeys \cup ProxyKeys
  /\ Truthy(GetProp(EntryOf(r), K_method))
  /\ GetProp(EntryOf(r), K_urlConstruction) = Undefined

\* The parameter schema of the route of slot r.
SchemaOf(r) ==
  IF GetProp(EntryOf(r), K_queryParams).t = "array"
  THEN GetProp(EntryOf(r), K_queryParams).a
  ELSE <<>>

NameOf(p) == GetProp(p, K_name).s
Supplied(r, p) == GetProp(reqs[r].query, NameOf(p)) # Undefined
IsRequired(p) == GetProp(p, K_required) = Bool(TRUE)
HasDefault(p) == GetProp(p, K_defaultValue) # Undefined
HasAllowed(p) == GetProp(p, K_validValues).t = "array"
AllowedOf(p) == { GetProp(p, K_validValues).a[i].s :
                    i \in 1..Len(GetProp(p, K_validValues).a) }

MissesRequired(r, p) == IsRequired(p) /\ ~Supplied(r, p)
OutOfAllowed(r, p) ==
  /\ Supplied(r, p) /\ HasAllowed(p)
  /\ GetProp(reqs[r].query, NameOf(p)).s \notin AllowedOf(p)

\* The query of slot r satisfies every required parameter and every
\* allowed-value set of the schema.
Satisfied(r) ==
  \A i \in 1..Len(SchemaOf(r)) :
    ~MissesRequired(r, SchemaOf(r)[i]) /\ ~OutOfAllowed(r, SchemaOf(r)[i])

\* sub occurs in s.
Contains(s, sub) == \E i \in 1..(Len(s) + 1) : HasPrefixAt(s, i, sub)

\* The messages of the details array of a 400 response.
DetailsOf(r) ==
  LET d == GetProp(reqs[r].resp.body, K_details)
  IN  IF d.t = "array" THEN { d.a[i].s : i \in 1..Len(d.a) } ELSE {}

Rejected400(r) ==
  /\ reqs[r].pc = "done" /\ reqs[r].calls = 0
  /\ reqs[r].resp.kind = "json" /\ reqs[r].resp.status = 400

\* The target URL the handler built for slot r: the Location of its
\* redirect, or the URL of its upstream call.
TargetOf(r) ==
  IF reqs[r].calls = 1 THEN reqs[r].targetUrl.s ELSE reqs[r].resp.location.s

HasTarget(r) ==
  \/ reqs[r].calls = 1
  \/ reqs[r].pc = "done" /\ reqs[r].resp # Undefined
       /\ reqs[r].resp.kind = "redirect"

\* The query string of a URL given as text: what lies between its first ?
\* and its fragment.
QueryText(u) ==
  LET h == FirstOf(u, {"#"})
      beforeFragment == SubSeq(u, 1, h - 1)
      q == IndexOf(beforeFragment, "?")
  IN  IF q = 0 THEN <<>> ELSE SubSeq(beforeFragment, q + 1, Len(beforeFragment))

\* The name/value pairs a receiver of the URL decodes from its query.
PairsOf(u) == ParseQueryList(QueryText(u))

\* The parameters the schema and the query of slot r call for, in schema
\* order: the supplied value, or the default of an omitted parameter.
ExpectedPairs(r) ==
  LET kept == SelectSeq(SchemaOf(r),
                        LAMBDA p : Supplied(r, p) \/ HasDefault(p))
  IN  [i \in 1..Len(kept) |->
         <<NameOf(kept[i]),
           IF Supplied(r, kept[i])
           THEN GetProp(reqs[r].query, NameOf(kept[i])).s
           ELSE GetProp(kept[i], K_defaultValue).s>>]

BaseOf(r) == GetProp(EntryOf(r), K_url).s

\* The pairs of the target URL of slot r that follow those of the base URL.
AppendedPairs(r) ==
  SubSeq(PairsOf(TargetOf(r)), Len(PairsOf(BaseOf(r))) + 1,
         Len(PairsOf(TargetOf(r))))

\* Slot r was answered on a generic redirect route with a base URL, its
\* query satisfying the schema.
RedirectCase(r) ==
  /\ OnGenericRoute(r)
  /\ reqs[r].pc = "done"
  /\ GetProp(EntryOf(r), K_method) = Str(S_redirect)
  /\ Truthy(GetProp(EntryOf(r), K_url))
  /\ Satisfied(r)

\* The base URL with the pairs ps added to its query as text, all else as
\* it was written: the fragment stays last, the query is continued with &.
TextAppend(base, ps) ==
  LET h == FirstOf(base, {"#"})
      beforeFragment == SubSeq(base, 1, h - 1)
  IN  IF ps = <<>> THEN base
      ELSE beforeFragment
             \o (IF Includes(beforeFragment, "?") THEN <<"&">> ELSE <<"?">>)
             \o SerializePairs(ps)
             \o SubSeq(base, h, Len(base))

\* C2 as stated: the redirect target is the base URL, character for
\* character, with the validated parameters added to its query.
C2_BaseUrlUnchanged ==
  \A r \in Slots :
    RedirectCase(r) =>
      reqs[r].resp = RedirectResponse(Str(TextAppend(BaseOf(r), ExpectedPairs(r))))

\* C2 amended: the response is a redirect; with no validated parameter its
\* target is the base URL as written; with some and a base URL the URL
\* parser accepts, the target has the scheme, host, port, path and fragment
\* of the parsed base URL and a query that decodes to the base URL's own
\* pairs followed by one pair per validated parameter (the text of the
\* target is the parser's serialization: host in lower case, an empty path
\* as /, the existing query re-encoded); with a base URL the parser
\* rejects, the target is the base URL followed by ? or & and the encoded
\* parameters.
C2_RedirectTarget ==
  \A r \in Slots :
    RedirectCase(r) =>
      /\ reqs[r].resp.kind = "redirect" /\ reqs[r].resp.status = 302
      /\ LET base   == BaseOf(r)
             target == reqs[r].resp.location.s
             b      == URLParse(base)
             t      == URLParse(target)
         IN  IF ExpectedPairs(r) = <<>> THEN target = base
             ELSE IF b.ok
             THEN /\ t.ok
                  /\ t.scheme = b.scheme /\ t.host = b.host /\ t.port = b.port
                  /\ t.path = b.path
                  /\ t.hasFragment = b.hasFragment /\ t.fragment = b.fragment
                  /\ PairsOf(target) = PairsOf(base) \o ExpectedPairs(r)
             ELSE target = base
                    \o (IF Includes(base, "?") THEN <<"&">> ELSE <<"?">>)
                    \o SerializePairs(ExpectedPairs(r))

\* A redirect on a base URL with a query and a fragment, a supplied value
\* holding a space.
C2_Witness ==
  \E r \in Slots :
    /\ RedirectCase(r)
    /\ BaseOf(r) = U_query
    /\ ExpectedPairs(r) = << <<P_k, V_ab>> >>
    /\ reqs[r].resp.kind = "redirect"

\* C3: on a generic route, a required parameter that is missing gives 400
\* with a message naming it; a supplied value outside the allowed values
\* gives 400 with a message listing them; when the query satisfies the
\* schema and the route has a base URL, an omitted optional parameter is
\* among the parameters added to the target URL with its default value,
\* and is not among them when it has no default.
C3_Validation ==
  \A r \in Slots :
    OnGenericRoute(r) =>
      \A i \in 1..Len(SchemaOf(r)) :
        LET p == SchemaOf(r)[i]
        IN  /\ MissesRequired(r, p) =>
                 /\ Rejected400(r)
                 /\ Msg_MissingRequired_pre \o NameOf(p) \o Msg_Dot
                      \in DetailsOf(r)
            /\ OutOfAllowed(r, p) =>
                 /\ Rejected400(r)
                 /\ \E m \in DetailsOf(r) :
                      /\ Contains(m, Msg_InvalidValue_pre \o NameOf(p))
                      /\ \A v \in AllowedOf(p) : Contains(m, v)
            /\ ( /\ Satisfied(r)
                 /\ Truthy(GetProp(EntryOf(r), K_url))
                 /\ ~Supplied(r, p) ) =>
                 /\ HasTarget(r)
                 /\ IF HasDefault(p)
                    THEN <<NameOf(p), GetProp(p, K_defaultValue).s>>
                           \in Range(AppendedPairs(r))
                    ELSE \A k \in 1..Len(AppendedPairs(r)) :
                           AppendedPairs(r)[k][1] # NameOf(p)

\* One request that misses a required parameter and carries a value that
\* is not allowed; one that omits a parameter with a default and one
\* without.
C3_Witness ==
  \E r \in Slots :
    /\ OnGenericRoute(r)
    /\ \/ /\ reqs[r].query = Q_big
          /\ MissesRequired(r, SpecKeyword) /\ OutOfAllowed(r, SpecSize)
          /\ SpecKeyword \in Range(SchemaOf(r))
          /\ Rejected400(r)
       \/ /\ reqs[r].query = Q_kw_a
          /\ SpecSize \in Range(SchemaOf(r)) /\ SpecR18 \in Range(SchemaOf(r))
          /\ AppendedPairs(r) = << <<P_keyword, V_a>>, <<P_size, V_regular>> >>

\* C10 as stated: in every variant a request for config, for admin or for
\* a key with a dot is passed on without a response, a target or an
\* upstream call.
C10_ReservedAnyVariant ==
  \A r \in Slots :
    ( /\ Routed(r)
      /\ \/ reqs[r].apiKey \in {S_config, S_admin}
         \/ Includes(reqs[r].apiKey, ".") ) =>
      /\ reqs[r].pc = "done" /\ reqs[r].declined
      /\ reqs[r].resp = Undefined /\ reqs[r].targetUrl = Undefined
      /\ reqs[r].calls = 0

\* C10 amended: a request for config or for a key with a dot (admin.html
\* among them) is passed on in every variant, and a request for admin in
\* the variants of src/unnamed/part_000, which serve an /admin page; in
\* src/index.js admin is an ordinary key, resolved when the table has an
\* entry under it.
C10_Reserved ==
  \A r \in Slots :
    Routed(r) =>
      /\ ( \/ reqs[r].apiKey = S_config
           \/ Includes(reqs[r].apiKey, ".")
           \/ reqs[r].apiKey = S_admin /\ variant \in {"mongo", "auth"} ) =>
           /\ reqs[r].pc = "done" /\ reqs[r].declined
           /\ reqs[r].resp = Undefined /\ reqs[r].targetUrl = Undefined
           /\ reqs[r].calls = 0
      /\ ( /\ reqs[r].apiKey = S_admin /\ variant = "index"
           /\ Truthy(GetProp(EntryOf(r), K_method)) ) =>
           ~reqs[r].declined /\ reqs[r].resp # Undefined

\* The table has an entry under config and the request for config was
\* passed on.
C10_Witness ==
  \E r \in Slots :
    /\ Routed(r)
    /\ reqs[r].apiKey = S_config
    /\ Truthy(EntryOf(r))
    /\ reqs[r].declined

(***************************************************************************)
(* Properties of the configuration endpoints (SpecConfig)                  *)
(***************************************************************************)
\* The payload has a routes mapping: it is an object whose apiUrls member
\* is an object of route entries (not an array, a string or a number).
HasRoutesMapping(body) ==
  body.t = "object" /\ GetProp(body, K_apiUrls).t = "object"

\* Slot p holds a POST /config with a valid payload that got past the
\* admin check.
ValidPost(p) ==
  /\ posts[p].pc # "idle"
  /\ HasRoutesMapping(posts[p].body)
  /\ posts[p].resp # Unauthorized

\* C4: from the moment a valid POST /config with payload T has run, while
\* it waits for MongoDB and for the file write and after it has answered,
\* whatever it answers, the table in memory is T as long as no later POST
\* replaces it; a GET /config served after it returns exactly T, and a
\* route request handled after it reads T and gets what T's routes give.
C4_TableReplaced ==
  \A p \in Slots :
    ValidPost(p) =>
      /\ posts[p].swapNo >= 1
      /\ posts[p].swapNo = swaps => currentConfig = posts[p].body
      /\ \A g \in Slots :
           ( /\ gets[g].pc = "done" /\ gets[g].swapNo = posts[p].swapNo
             /\ gets[g].resp # Unauthorized ) =>
             gets[g].resp = JsonResponse(200, posts[p].body)
      /\ \A r \in Slots :
           (reqs[r].pc # "idle" /\ reqs[r].swapNo = posts[p].swapNo) =>
             LET h == RouteHandler(variant, posts[p].body,
                                   reqs[r].apiKey, reqs[r].query)
             IN  /\ reqs[r].table = posts[p].body
                 /\ reqs[r].declined = (h.kind = "next")
                 /\ reqs[r].targetUrl = h.targetUrl
                 /\ reqs[r].proxySettings = h.proxySettings
                 /\ h.kind = "respond" => reqs[r].resp = h.resp

\* The second table was posted over the first, every write failed (500),
\* and a GET /config served afterwards returned the second table.
C4_Witness ==
  \E p \in Slots, g \in Slots :
    /\ ValidPost(p) /\ posts[p].body = TableB
    /\ posts[p].pc = "done" /\ posts[p].resp.status = 500
    /\ gets[g].pc = "done" /\ gets[g].swapNo = posts[p].swapNo
    /\ gets[g].resp = JsonResponse(200, TableB)
    /\ currentConfig = TableB
    /\ TableA \in {mongoStore, fileStore}

\* C5 as stated: a POST /config whose payload has no routes mapping ends,
\* in the step that handles it, with a 400 (a 401 from the admin check
\* aside) and leaves the table in memory and both stores as they were.
C5_NoRoutesMappingRejected ==
  [][ \A p \in Slots :
        ( /\ posts[p].pc = "idle" /\ posts'[p].pc # "idle"
          /\ ~HasRoutesMapping(posts'[p].body) ) =>
          /\ posts'[p].pc = "done"
          /\ posts'[p].resp \in
               {JsonResponse(400, ErrorBody(Msg_InvalidConfig)), Unauthorized}
          /\ UNCHANGED <<currentConfig, mongoStore, fileStore>> ]_vars

\* What the code does reject: a payload that is missing, or whose apiUrls
\* member is absent, null or empty text.
C5_FalsyRoutesRejected ==
  [][ \A p \in Slots :
        ( /\ posts[p].pc = "idle" /\ posts'[p].pc # "idle"
          /\ \/ ~Truthy(posts'[p].body)
             \/ ~Truthy(GetProp(posts'[p].body, K_apiUrls)) ) =>
          /\ posts'[p].pc = "done"
          /\ posts'[p].resp \in
               {JsonResponse(400, ErrorBody(Msg_InvalidConfig)), Unauthorized}
          /\ UNCHANGED <<currentConfig, mongoStore, fileStore>> ]_vars

(***************************************************************************)
(* Properties of the special constructions                                 *)
(***************************************************************************)
\* Slot r asked for a route the table defines with a method and with the
\* given special construction.
OnSpecialRoute(r, construction) ==
  /\ Routed(r)
  /\ ~reqs[r].declined
  /\ Truthy(GetProp(EntryOf(r), K_method))
  /\ GetProp(EntryOf(r), K_urlConstruction) = Str(construction)

\* The request of slot r supplies the parameter name with a value that is
\* not empty.
Carries(r, name) ==
  /\ GetProp(reqs[r].query, name).t = "string"
  /\ GetProp(reqs[r].query, name).s # <<>>

\* The extraction field default the forward route of slot r declares.
ForwardDefaultOf(r) ==
  GetOpt(GetProp(EntryOf(r), K_proxySettings), K_imageUrlFieldFromParamDefault)

C11_WitnessNoUrl ==
  \E r \in Slots :
    /\ OnSpecialRoute(r, S_special_forward)
    /\ reqs[r].query = Q_none
    /\ reqs[r].resp.status = 400
    /\ reqs[r].calls = 0

\* The tags values of the model's requests with their encodeURIComponent
\* forms, written out.
E_tags == <<"c","a","t","%","2","C","w","a","t","e","r">>
E_tags_pct == <<"a","%","2","0","b","%","2","5">>
EncodedOnce == { <<V_tags, E_tags>>, <<V_tags_pct, E_tags_pct>> }

\* The redirect targets of the example request /flux?tags=cat%2Cwater on
\* the route with base URL https://img.example/prompt/, model flux and
\* baseTag quality%20tag: as the claim gives it, and with the tags encoded
\* once.
T_example_twice == <<"h","t","t","p","s",":","/","/","i","m","g",".","e",
    "x","a","m","p","l","e","/","p","r","o","m","p","t","/","c","a","t","%",
    "2","5","2","C","w","a","t","e","r","%","2","c","q","u","a","l","i","t",
    "y","%","2","0","t","a","g","?","&","m","o","d","e","l","=","f","l","u",
    "x","&","n","o","l","o","g","o","=","t","r","u","e">>
T_example_once == <<"h","t","t","p","s",":","/","/","i","m","g",".","e","x",
    "a","m","p","l","e","/","p","r","o","m","p","t","/","c","a","t","%","2",
    "C","w","a","t","e","r","%","2","c","q","u","a","l","i","t","y","%","2",
    "0","t","a","g","?","&","m","o","d","e","l","=","f","l","u","x","&","n",
    "o","l","o","g","o","=","t","r","u","e">>

\* Slot r asked for a pollinations route that has a base URL.
OnPollinationsRoute(r) ==
  /\ OnSpecialRoute(r, S_special_pollinations)
  /\ Truthy(GetProp(EntryOf(r), K_url))

\* The request of slot r is the example request on the example route.
IsPollinationsExample(r) ==
  /\ OnPollinationsRoute(r)
  /\ reqs[r].query = ReqQuery(RQ_tags)
  /\ GetProp(EntryOf(r), K_url) = Str(U_poll)
  /\ GetProp(EntryOf(r), K_modelName) = Str(S_flux)
  /\ GetProp(reqs[r].table, K_baseTag) = Str(V_baseTag)

\* The target the construction gives for the tags in their encoded form e.
PollinationsTarget(r, e) ==
  GetProp(EntryOf(r), K_url).s \o e \o S_pct2c
    \o OrElse(GetProp(reqs[r].table, K_baseTag), Str(<<>>)).s
    \o S_modelQuery \o GetProp(EntryOf(r), K_modelName).s \o S_nologo

\* The pollinations construction but for the example: without tags 400,
\* with tags a redirect to baseUrl, the tags encoded once, %2c, the global
\* baseTag as it is stored, ?&model=, the model name, &nologo=true.
PollinationsShape(r) ==
  IF ~Carries(r, K_tags)
  THEN /\ reqs[r].resp = JsonResponse(400, ErrorBody(Msg_MissingTags))
       /\ reqs[r].calls = 0
  ELSE \A t \in EncodedOnce :
         GetProp(reqs[r].query, K_tags) = Str(t[1]) =>
           reqs[r].resp = RedirectResponse(Str(PollinationsTarget(r, t[2])))

\* C12 as stated: the construction as above, and the example request
\* /flux?tags=cat%2Cwater is redirected to
\* https://img.example/prompt/cat%252Cwater%2cquality%20tag?&model=flux&nologo=true.
C12_ExampleEncodedTwice ==
  \A r \in Slots :
    OnPollinationsRoute(r) =>
      /\ PollinationsShape(r)
      /\ IsPollinationsExample(r) =>
           reqs[r].resp = RedirectResponse(Str(T_example_twice))

\* C12 amended: the construction as above; the tags the request carries
\* (the value of the query parameter after the server decoded the query
\* string) are encoded exactly once, so the example request
\* /flux?tags=cat%2Cwater, whose tags are cat,water, is redirected to
\* https://img.example/prompt/cat%2Cwater%2cquality%20tag?&model=flux&nologo=true.
C12_Pollinations ==
  \A r \in Slots :
    OnPollinationsRoute(r) =>
      /\ PollinationsShape(r)
      /\ IsPollinationsExample(r) =>
           reqs[r].resp = RedirectResponse(Str(T_example_once))

\* The example request was redirected.
C12_Witness ==
  \E r \in Slots :
    /\ IsPollinationsExample(r)
    /\ reqs[r].pc = "done"
    /\ reqs[r].resp.kind = "redirect"

\* /flux?tags=a+b%25 was redirected with the tags a b% encoded once.
C12_WitnessPlus ==
  \E r \in Slots :
    /\ OnPollinationsRoute(r)
    /\ reqs[r].query = ReqQuery(RQ_tags_plus)
    /\ GetProp(reqs[r].query, K_tags) = Str(V_tags_pct)
    /\ reqs[r].resp =
         RedirectResponse(Str(PollinationsTarget(r, E_tags_pct)))

\* The parameter specs named model in the schema of the route of slot r.
ModelSpecsOf(r) ==
  { SchemaOf(r)[i] : i \in { k \in 1..Len(SchemaOf(r)) :
                               NameOf(SchemaOf(r)[k]) = K_model } }

\* The models the draw alias of slot r allows: the allowed values of the
\* route's model spec, or flux and turbo when the schema declares none.
AllowedModels(r) ==
  IF \E p \in ModelSpecsOf(r) : HasAllowed(p)
  THEN UNION { AllowedOf(p) : p \in ModelSpecsOf(r) }
  ELSE {S_flux, S_turbo}

\* The model of the request of slot r when it supplies none, as the claim
\* has it and as the route's schema may set it.
ClaimedModel(r) ==
  IF Carries(r, K_model) THEN GetProp(reqs[r].query, K_model).s ELSE S_flux

DeclaredModel(r) ==
  IF Carries(r, K_model) THEN GetProp(reqs[r].query, K_model).s
  ELSE IF \E p \in ModelSpecsOf(r) : HasDefault(p)
  THEN GetProp(CHOOSE p \in ModelSpecsOf(r) : HasDefault(p), K_defaultValue).s
  ELSE S_flux

\* The draw alias with the model m and the tags written as enc(tags).
DrawAlias(r, m, enc(_)) ==
  IF ~Carries(r, K_tags)
  THEN /\ reqs[r].resp = JsonResponse(400, ErrorBody(Msg_MissingTags))
       /\ reqs[r].calls = 0
  ELSE IF m \notin AllowedModels(r)
  THEN /\ reqs[r].resp.kind = "json"
       /\ reqs[r].resp.status = 400
       /\ reqs[r].calls = 0
  ELSE reqs[r].resp =
         RedirectResponse(Str(S_slash \o m \o S_tagsQuery
                                \o enc(GetProp(reqs[r].query, K_tags).s)))

AsGiven(tags) == tags
EncodedTags(tags) == (CHOOSE t \in EncodedOnce : t[1] = tags)[2]

\* A redirect of the draw alias goes to a model of the allowed list.
DrawRedirectAllowed(r) ==
  reqs[r].resp.kind = "redirect" =>
    \E m \in AllowedModels(r) :
      HasPrefixAt(reqs[r].resp.location.s, 1, S_slash \o m \o S_tagsQuery)

\* C13 as stated: without tags 400; the model is the request's model
\* parameter, or flux when none is supplied; a model outside the allowed
\* list is answered 400; otherwise the response is a redirect to
\* /{model}?tags={tags}; no redirect goes to a model outside the list.
C13_ModelDefaultsToFlux ==
  \A r \in Slots :
    OnSpecialRoute(r, S_special_draw_redirect) =>
      /\ DrawAlias(r, ClaimedModel(r), AsGiven)
      /\ DrawRedirectAllowed(r)

\* C13 amended: without tags 400; the model is the request's model
\* parameter, or the default value of the route's model parameter spec
\* when none is supplied, or flux when the spec declares no default; a
\* model outside the allowed list is answered 400; otherwise the response
\* is a redirect to /{model}?tags={urlEncode(tags)}; no redirect goes to a
\* model outside the list.
C13_DrawAlias ==
  \A r \in Slots :
    OnSpecialRoute(r, S_special_draw_redirect) =>
      /\ DrawAlias(r, DeclaredModel(r), EncodedTags)
      /\ DrawRedirectAllowed(r)

\* /draw?tags=cat,water on the route whose model spec defaults to turbo
\* was redirected to /turbo?tags=cat%2Cwater.
C13_Witness ==
  \E r \in Slots :
    /\ OnSpecialRoute(r, S_special_draw_redirect)
    /\ reqs[r].query = Q_tags
    /\ ModelSpecsOf(r) = {SpecModel}
    /\ reqs[r].resp =
         RedirectResponse(Str(S_slash \o S_turbo \o S_tagsQuery \o E_tags))

\* model=flux was answered 400 on the route that allows turbo and x, and
\* model=x was answered 400 on the route without a model spec.
C13_WitnessRejected ==
  \E r \in Slots :
    /\ OnSpecialRoute(r, S_special_draw_redirect)
    /\ reqs[r].resp.status = 400
    /\ \/ reqs[r].query = Q_tags_flux /\ ModelSpecsOf(r) = {SpecModel}
       \/ reqs[r].query = Q_tags_bad /\ ModelSpecsOf(r) = {}

(***************************************************************************)
(* Properties of the routes without a base URL                             *)
(***************************************************************************)
\* The route of slot r has no base URL: the url member is absent or empty.
BaseUrlMissing(r) == ~Truthy(GetProp(EntryOf(r), K_url))

\* Slot r was resolved against a route that builds its target from the
\* route's base URL: a generic route whose parameters passed validation,
\* or a pollinations route whose request carries tags.
BuiltFromBaseUrl(r) ==
  \/ OnGenericRoute(r) /\ Satisfied(r)
  \/ OnSpecialRoute(r, S_special_pollinations) /\ Carries(r, K_tags)

\* C18: a request resolved against a route whose base URL is missing or
\* empty is answered 500; it is never answered with a redirect and never
\* starts an upstream call.
C18_MissingBaseUrl500 ==
  \A r \in Slots :
    (BuiltFromBaseUrl(r) /\ BaseUrlMissing(r)) =>
      /\ reqs[r].resp.status = 500
      /\ reqs[r].resp.kind # "redirect"
      /\ reqs[r].calls = 0

\* The part of C18 that holds: on the generic path, redirect or proxy, a
\* missing or empty base URL is answered 500 with no redirect and no
\* upstream call.
C18_GenericMissingBaseUrl ==
  \A r \in Slots :
    (OnGenericRoute(r) /\ Satisfied(r) /\ BaseUrlMissing(r)) =>
      /\ reqs[r].resp = JsonResponse(500, ErrorBody(Msg_UrlMissing))
      /\ reqs[r].calls = 0
      /\ reqs[r].pc = "done"

\* A proxy route without url answered 500.
C18_GenericWitness ==
  \E r \in Slots :
    /\ OnGenericRoute(r) /\ Satisfied(r) /\ BaseUrlMissing(r)
    /\ GetProp(EntryOf(r), K_method) = Str(S_proxy)
    /\ reqs[r].resp.status = 500

(***************************************************************************)
(* Properties of the lookup                                                *)
(***************************************************************************)
\* The table slot r read has no usable route under the key: no entry, or
\* an entry without a resolution mode.
NoUsableRoute(r) ==
  \/ EntryOf(r) = Undefined
  \/ GetProp(EntryOf(r), K_method) = Undefined

\* C19: when the key is absent from the table, or its route definition
\* carries no resolution mode, the engine declines: the request is passed
\* to the next handler with no response, no error and no upstream call;
\* so also for a route that declares a special construction but no mode.
C19_Declines ==
  \A r \in Slots :
    (Routed(r) /\ NoUsableRoute(r)) =>
      /\ reqs[r].pc = "done"
      /\ reqs[r].declined
      /\ reqs[r].resp = Undefined
      /\ reqs[r].calls = 0
      /\ reqs[r].outcome = Undefined

\* /nomspecial?url=https://u.com/s, a forward construction without a
\* method, was declined.
C19_Witness ==
  \E r \in Slots :
    /\ Routed(r)
    /\ reqs[r].apiKey = R_nomspecial
    /\ reqs[r].query = Q_url
    /\ GetProp(EntryOf(r), K_urlConstruction) = Str(S_special_forward)
    /\ GetProp(EntryOf(r), K_method) = Undefined
    /\ reqs[r].declined

\* An unknown key and a generic route without a method were declined.
C19_WitnessAbsent ==
  \E r \in Slots :
    /\ Routed(r) /\ reqs[r].declined
    /\ reqs[r].apiKey = R_absent /\ EntryOf(r) = Undefined

C19_WitnessNoMethod ==
  \E r \in Slots :
    /\ Routed(r) /\ reqs[r].declined
    /\ reqs[r].apiKey = R_nomethod /\ EntryOf(r) # Undefined

(***************************************************************************)
(* Properties of the validation loop                                       *)
(***************************************************************************)
\* The specs of the schema of slot r that the query fails, in declaration
\* order.
FailingSpecs(r) ==
  SelectSeq(SchemaOf(r),
            LAMBDA p : MissesRequired(r, p) \/ OutOfAllowed(r, p))

\* The details array of the response of slot r.
ErrorList(r) ==
  LET d == GetProp(reqs[r].resp.body, K_details)
  IN  IF d.t = "array" THEN [i \in 1..Len(d.a) |-> d.a[i].s] ELSE <<>>

\* m is the error the loop reports for the failing spec p.
IsErrorFor(r, m, p) ==
  IF MissesRequired(r, p)
  THEN m = Msg_MissingRequired_pre \o NameOf(p) \o Msg_Dot
  ELSE /\ HasPrefixAt(m, 1, Msg_InvalidValue_pre \o NameOf(p))
       /\ \A v \in AllowedOf(p) : Contains(m, v)

\* C20: validation checks every parameter spec of the schema in
\* declaration order and does not stop at the first failure: the 400
\* response lists exactly one error for each spec that fails, in schema
\* order, and none for the others; with a failing spec no target is built
\* (no redirect, no upstream call), and without one the request is not
\* rejected for its parameters.
C20_AllErrorsListed ==
  \A r \in Slots :
    OnGenericRoute(r) =>
      IF FailingSpecs(r) # <<>>
      THEN /\ Rejected400(r)
           /\ GetProp(reqs[r].resp.body, K_error) = Str(Msg_InvalidQuery)
           /\ Len(ErrorList(r)) = Len(FailingSpecs(r))
           /\ \A i \in 1..Len(FailingSpecs(r)) :
                IsErrorFor(r, ErrorList(r)[i], FailingSpecs(r)[i])
           /\ reqs[r].targetUrl = Undefined
      ELSE ~(reqs[r].pc = "done" /\ reqs[r].resp.status = 400)

\* /tag?size=big fails two specs of keyword, size, r18: the response lists
\* the missing keyword first and the invalid size second.
C20_Witness ==
  \E r \in Slots :
    /\ OnGenericRoute(r)
    /\ reqs[r].apiKey = R_tag /\ reqs[r].query = Q_big
    /\ Len(FailingSpecs(r)) = 2
    /\ Len(ErrorList(r)) = 2
    /\ ErrorList(r)[1] = Msg_MissingRequired_pre \o P_keyword \o Msg_Dot
    /\ Contains(ErrorList(r)[2], P_size)

\* /tag?keyword=a&size=big fails the second spec only.
C20_WitnessSecond ==
  \E r \in Slots :
    /\ OnGenericRoute(r)
    /\ reqs[r].query = Q_kw_a_big
    /\ FailingSpecs(r) = <<SpecSize>>
    /\ Len(ErrorList(r)) = 1

(***************************************************************************)
(* Properties of the persistence of POST /config                           *)
(***************************************************************************)
\* The persistence backends the server is configured with.
ConfiguredBackends ==
  (IF variant # "index" /\ mongoClient THEN {"mongo"} ELSE {})
    \cup (IF variant = "index" \/ enableFileOperations THEN {"file"} ELSE {})

\* The backends that stored the table of the POST of slot p.
StoredBackends(p) ==
  (IF posts[p].mongoSuccess THEN {"mongo"} ELSE {})
    \cup (IF posts[p].fileSuccess THEN {"file"} ELSE {})

\* The texts of the answers: every configured backend stored the table,
\* some but not all did, every one failed.
FullSuccessMessages ==
  {Msg_Saved, Msg_SavedBoth, Msg_SavedMongo, Msg_FileOnlyNoMongo}
PartialSuccessMessages == {Msg_MongoOnlyBackupFailed, Msg_FileOnlyMongoFailed}
AllFailedMessages ==
  {Msg_FileFailed, Msg_BothFailed, Msg_FileFailedNoMongo, Msg_MongoFailed}

\* Slot p holds a valid POST /config that has answered.
ValidPostAnswered(p) == ValidPost(p) /\ posts[p].pc = "done"

C14_WitnessAllFailed ==
  \E p \in Slots :
    /\ ValidPostAnswered(p)
    /\ ConfiguredBackends = {"mongo", "file"}
    /\ posts[p].resp = JsonResponse(500, ErrorBody(Msg_BothFailed))
    /\ posts[p].body = TableB /\ currentConfig = TableB
    /\ mongoStore # TableB /\ fileStore # ConfigJson(TableB)

C14_WitnessNoStorage ==
  \E p \in Slots :
    /\ ValidPostAnswered(p)
    /\ ConfiguredBackends = {}
    /\ posts[p].resp = JsonResponse(500, ErrorBody(Msg_NoStorage))
    /\ currentConfig = posts[p].body

(***************************************************************************)
(* Properties of a route request across a replacement of the table         *)
(***************************************************************************)
\* The table was replaced after the lookup of slot r.
ReplacedSince(r) == reqs[r].swapNo < swaps

\* What the table t alone gives for the request of slot r: the outcome of
\* the handler, and the answer of the proxy path to the upstream outcome.
GivenBy(r, t) ==
  LET h == RouteHandler(variant, t, reqs[r].apiKey, reqs[r].query)
  IN  /\ reqs[r].declined = (h.kind = "next")
      /\ reqs[r].calls = (IF h.kind = "proxy" THEN 1 ELSE 0)
      /\ reqs[r].targetUrl = h.targetUrl
      /\ reqs[r].proxySettings = h.proxySettings
      /\ h.kind = "respond" => reqs[r].resp = h.resp
      /\ Answered(r) =>
           reqs[r].resp = handleProxyRequest(h.targetUrl, h.proxySettings,
                                             reqs[r].outcome)

\* C17: a route request uses one table throughout.  Its entry, its proxy
\* settings and the baseTag are those of the table that was current at
\* its lookup, also when POST /config has replaced the table while the
\* request waited for its upstream; a request handled after the last
\* replacement is resolved by the table in memory alone.
C17_OneSnapshot ==
  \A r \in Slots :
    Routed(r) =>
      /\ GivenBy(r, reqs[r].table)
      /\ ~ReplacedSince(r) => reqs[r].table = currentConfig
      /\ \A p \in Slots :
           (ValidPost(p) /\ posts[p].swapNo = reqs[r].swapNo) =>
             reqs[r].table = posts[p].body

\* /doro was looked up in the first table (extraction at data.link), the
\* second table (no field, fallbackAction error) was posted while the
\* upstream call was pending, and the answer is the redirect the first
\* table gives, where the second would give 404.
C17_Witness ==
  \E r \in Slots :
    /\ Answered(r) /\ ReplacedSince(r)
    /\ reqs[r].apiKey = R_doro
    /\ reqs[r].table = TableA /\ currentConfig = TableB
    /\ reqs[r].outcome = UpstreamResponse(200, B_datalink)
    /\ reqs[r].resp = RedirectResponse(Str(I_webp))
    /\ handleProxyRequest(reqs[r].targetUrl,
         GetProp(LookupEntry(currentConfig, R_doro), K_proxySettings),
         reqs[r].outcome).status = 404

\* /flux handled after the second table replaced the first uses the new
\* table's entry and the new table's (absent) baseTag.
C17_WitnessAfter ==
  \E r \in Slots :
    /\ Routed(r) /\ ~ReplacedSince(r) /\ swaps > 0
    /\ reqs[r].apiKey = R_flux
    /\ reqs[r].table = TableB /\ currentConfig = TableB
    /\ reqs[r].resp.kind = "redirect"
    /\ ~Contains(reqs[r].resp.location.s, V_baseTag)

(***************************************************************************)
(* Properties of loadConfig                                                *)
(***************************************************************************)
\* loadConfig has returned and the table was not replaced since.
Loaded == Listening /\ swaps = 0

\* v is a routing table: an object with a routes mapping.
IsTable(v) == v.t = "object" /\ GetProp(v, K_apiUrls).t = "object"

\* The primary backend provided a table: findOne gave a document with
\* data.  The secondary did: config.json was read and parsed.
PrimaryProvided == IsTable(load.doc)
SecondaryProvided == IsTable(load.fileRead)

\* C15: loadConfig never fails and always leaves a table in memory: the
\* table of the primary backend (MongoDB) when it has one; otherwise, on
\* any failure or absence of the primary, the table of the secondary (the
\* local file) when that was read; the empty table (no routes, baseTag "")
\* only when neither backend provided a table.
C15_LoadFallsBack ==
  Loaded =>
    /\ IsTable(currentConfig)
    /\ PrimaryProvided => currentConfig = load.doc
    /\ (~PrimaryProvided /\ SecondaryProvided) =>
         currentConfig = load.fileRead
    /\ currentConfig = EmptyTable =>
         (~PrimaryProvided /\ ~SecondaryProvided)

\* The part of C15 that holds: the file-only server, and the servers with
\* MongoDB when file operations are enabled, load as the claim says, and
\* with file operations enabled a file that exists and parses is always
\* reached when MongoDB gave no table.
C15_LoadWithFileOperations ==
  (Loaded /\ (variant = "index" \/ enableFileOperations)) =>
    /\ IsTable(currentConfig)
    /\ PrimaryProvided => currentConfig = load.doc
    /\ (~PrimaryProvided /\ ReadConfigFile(fileStore).ok) =>
         currentConfig = fileStore
    /\ currentConfig = EmptyTable =>
         (~PrimaryProvided /\ ~ReadConfigFile(fileStore).ok)

\* MongoDB was unreachable and the table came from the file.
C15_WitnessSecondary ==
  /\ Loaded
  /\ mongoClient /\ load.doc = Undefined
  /\ currentConfig = TableB /\ load.fileRead = TableB

\* The table of config.json was read, its copy to MongoDB failed, and the
\* empty table was installed.
C15_WitnessDropped ==
  /\ Loaded
  /\ load.doc = NoData /\ load.fileRead = TableB
  /\ ~enableFileOperations
  /\ currentConfig = EmptyTable

(***************************************************************************)
(* Properties of overlapping proxy requests                                *)
(***************************************************************************)
\* C16: overlapping requests to a slow proxy route do not block each
\* other.  A request whose upstream call is pending is answered in the
\* end, with what its own upstream call gave (the upstream answer, or 504
\* when it timed out), however long the calls of the other requests stay
\* pending; no request waits for another.
C16_EachCompletes ==
  (reqs[LastSlot].pc = "awaiting")
    ~> ( /\ Answered(LastSlot)
         /\ reqs[LastSlot].resp =
              handleProxyRequest(reqs[LastSlot].targetUrl,
                                 reqs[LastSlot].proxySettings,
                                 reqs[LastSlot].outcome) )

\* A request to a proxy route was answered by its own upstream call
\* while the upstream call of another request to the same route is still
\* pending.
C16_Witness ==
  /\ Answered(LastSlot)
  /\ reqs[LastSlot].calls = 1
  /\ \E s \in Pending(LastSlot) : reqs[s].apiKey = reqs[LastSlot].apiKey

\* Two upstream calls to the same route are pending at once: the later
\* request started its call while the earlier one was waiting.
C16_WitnessBothPending ==
  /\ reqs[LastSlot].pc = "awaiting"
  /\ reqs[LastSlot].calls = 1
  /\ \E s \in Pending(LastSlot) :
       reqs[s].apiKey = reqs[LastSlot].apiKey /\ reqs[s].calls = 1

(***************************************************************************)
(* SpecCalls: route requests of every kind of outcome on every connection  *)
(* slot at once, the same request possibly on several slots.               *)
(***************************************************************************)
CallRouteRequests ==
  { <<R_doro, Q_none>>, <<R_forward, Q_url>>, <<R_forward, Q_none>>,
    <<R_tag, Q_kw_a>>, <<R_tag, Q_kw_c>>, <<R_nourl, Q_none>>,
    <<S_config, Q_none>> }

CallOutcomes == {UpstreamResponse(200, B_datalink), NoResponse}

NextCalls ==
  \/ \E r \in Slots, rq \in CallRouteRequests : RouteRequest(r, rq[1], rq[2])
  \/ \E r \in Slots, o \in CallOutcomes : UpstreamSettles(r, o)
  \/ \E r \in Slots : Complete(r)

SpecCalls == Init /\ [][NextCalls]_vars

(***************************************************************************)
(* Properties of the number of upstream calls                              *)
(***************************************************************************)
\* What the handler makes of the request of slot r with the table it read.
HandledAs(r) ==
  RouteHandler(variant, reqs[r].table, reqs[r].apiKey, reqs[r].query).kind

\* The request of slot r reached proxy resolution.
ReachedProxy(r) == Routed(r) /\ HandledAs(r) = "proxy"

\* The number of upstream calls issued for the requests of the slots in S.
RECURSIVE CallsOf(_)
CallsOf(S) ==
  IF S = {} THEN 0
  ELSE LET r == CHOOSE x \in S : TRUE
       IN  reqs[r].calls + CallsOf(S \ {r})

\* C21: a route request causes at most one upstream call: exactly one when
\* it reaches proxy resolution, none when it is declined, rejected with
\* 400, fails for a missing base URL or is answered by a redirect; the
\* call is never issued again while the request lasts; and requests are
\* not coalesced: the requests that reached proxy resolution have caused
\* as many upstream calls as there are of them, identical or not.
C21_OneCallEach ==
  /\ [](\A r \in Slots :
          /\ reqs[r].calls = (IF ReachedProxy(r) THEN 1 ELSE 0)
          /\ (Routed(r) /\ HandledAs(r) # "proxy") =>
               /\ reqs[r].pc = "done" /\ reqs[r].outcome = Undefined
               /\ reqs[r].declined = (HandledAs(r) = "next"))
  /\ [](CallsOf(Slots) = Cardinality({r \in Slots : ReachedProxy(r)}))
  /\ [][\A r \in Slots :
          (Routed(r) /\ reqs'[r].pc # "idle") =>
            reqs'[r].calls = reqs[r].calls]_vars

\* Two identical requests are pending at once, each with its own call.
C21_Witness ==
  \E r, s \in Slots :
    /\ r # s
    /\ reqs[r].pc = "awaiting" /\ reqs[s].pc = "awaiting"
    /\ reqs[r].apiKey = R_doro /\ reqs[s].apiKey = R_doro
    /\ reqs[r].query = reqs[s].query
    /\ reqs[r].targetUrl = reqs[s].targetUrl
    /\ reqs[r].calls = 1 /\ reqs[s].calls = 1

\* One request was answered after its single call failed without a
\* response, while another was answered 400 with no call.
C21_WitnessNoRetry ==
  \E r, s \in Slots :
    /\ Answered(r) /\ reqs[r].outcome = NoResponse
    /\ reqs[r].resp.status = 504 /\ reqs[r].calls = 1
    /\ Rejected400(s) /\ reqs[s].calls = 0

(***************************************************************************)
(* Properties of the construction of the target URL                        *)
(***************************************************************************)
\* Slot r asked for a generic route with a base URL, its query satisfying
\* the schema: the handler constructs a target URL.
ConstructionCase(r) ==
  /\ OnGenericRoute(r)
  /\ Truthy(GetProp(EntryOf(r), K_url))
  /\ Satisfied(r)

\* C22: the target URL of a generic route.  With no validated parameter it
\* is the base URL unchanged, also when the base URL is malformed.  With
\* some and a base URL the parser accepts, every validated parameter is
\* appended to the query: the parameters the base URL already has are
\* kept, one of the same name included, and both appear.  With some and a
\* base URL the parser rejects, it is the base URL, then ? (or & when the
\* base URL contains ?), then the URL-encoded parameters.  Whatever the
\* base URL string, the construction does not fail the request: the
\* request is redirected to the target or its upstream call is made.
C22_TargetUrlBuilder ==
  \A r \in Slots :
    ConstructionCase(r) =>
      /\ HasTarget(r)
      /\ reqs[r].calls = 0 => reqs[r].resp.status = 302
      /\ LET base   == BaseOf(r)
             target == TargetOf(r)
             added  == ExpectedPairs(r)
         IN  IF added = <<>> THEN target = base
             ELSE IF URLParse(base).ok
             THEN /\ URLParse(target).ok
                  /\ PairsOf(target) = PairsOf(base) \o added
                  /\ \A i \in 1..Len(PairsOf(base)) :
                       PairsOf(target)[i] = PairsOf(base)[i]
             ELSE target = base
                    \o (IF Includes(base, "?") THEN <<"&">> ELSE <<"?">>)
                    \o SerializePairs(added)

\* The base URL has k=1 and the schema adds k=ab: both are in the target.
C22_Witness ==
  \E r \in Slots :
    /\ ConstructionCase(r)
    /\ BaseOf(r) = U_samek
    /\ ExpectedPairs(r) = << <<P_k, V_ab>> >>
    /\ TargetOf(r) = T_samek
    /\ PairsOf(TargetOf(r)) = << <<P_k, <<"1">> >>, <<P_k, V_ab>> >>

\* A base URL the parser rejects and that contains ?, continued with &.
C22_WitnessUnparseable ==
  \E r \in Slots :
    /\ ConstructionCase(r)
    /\ BaseOf(r) = U_rawq /\ ~URLParse(U_rawq).ok
    /\ ExpectedPairs(r) # <<>>
    /\ TargetOf(r) = U_rawq \o <<"&">> \o SerializePairs(ExpectedPairs(r))

\* A malformed base URL with no validated parameter, left as it is.
C22_WitnessMalformedAlone ==
  \E r \in Slots :
    /\ ConstructionCase(r)
    /\ ~URLParse(BaseOf(r)).ok /\ ExpectedPairs(r) = <<>>
    /\ reqs[r].resp = RedirectResponse(Str(BaseOf(r)))

\* A proxy route: the validated parameter is in the URL of the upstream
\* call.
C22_WitnessProxy ==
  \E r \in Slots :
    /\ ConstructionCase(r)
    /\ reqs[r].calls = 1
    /\ ExpectedPairs(r) = << <<P_k, V_ab>> >>
    /\ PairsOf(TargetOf(r)) = << <<P_k, V_ab>> >>

(***************************************************************************)
(* SpecStages: one client whose route requests stop at every stage of the  *)
(* handler, and an administrator whose POST /config meets every outcome    *)
(* of the MongoDB calls and of the file write.                             *)
(***************************************************************************)
StageRouteRequests ==
  { <<R_absent, Q_kw_c>>, <<S_config, Q_none>>, <<R_tag, Q_kw_c>>,
    <<R_nourl, Q_big>>, <<R_nourl, Q_none>>, <<R_pnone, Q_k>>,
    <<R_tag, Q_kw_a>>, <<R_doro, Q_none>>, <<R_forward, Q_url>> }

StagePostBodies == {TableB, BodyNoRoutes}

StageCookies == {AdminToken, Str(S_guess)}

NextStages ==
  \/ \E rq \in StageRouteRequests : RouteRequest(1, rq[1], rq[2])
  \/ \E o \in ConfigOutcomes : UpstreamSettles(1, o)
  \/ Complete(1)
  \/ \E b \in StagePostBodies, c \in StageCookies : PostConfig(1, b, c)
  \/ \E ok \in BOOLEAN : MongoConnected(1, ok)
  \/ \E ok \in BOOLEAN : MongoUpdated(1, ok)
  \/ MongoClosed(1)
  \/ \E ok \in BOOLEAN : FileWritten(1, ok)
  \/ PostComplete(1)

SpecStages == InitConfig /\ [][NextStages]_vars

(***************************************************************************)
(* Properties of the stages of a request                                   *)
(***************************************************************************)
\* How far the handling of a route request has come: not begun, past
\* lookup, validation, construction and dispatch with the upstream call
\* pending, ended.
ReqRank(q) ==
  CASE q.pc = "idle"     -> 0
    [] q.pc = "awaiting" -> 1
    [] q.pc = "done"     -> 2

\* How far the handling of POST /config has come.
PostRank(q) ==
  CASE q.pc = "idle"         -> 0
    [] q.pc = "mongoConnect" -> 1
    [] q.pc = "mongoUpdate"  -> 2
    [] q.pc = "mongoClose"   -> 3
    [] q.pc = "fileWrite"    -> 4
    [] q.pc = "done"         -> 5

\* The one outcome of the ended route request of slot r.
OutcomeOf(r) ==
  IF reqs[r].declined THEN "declined"
  ELSE IF reqs[r].resp = Undefined THEN "none"
  ELSE IF reqs[r].resp.kind = "redirect" THEN "redirect"
  ELSE IF reqs[r].resp.status >= 400 THEN "error"
  ELSE "body"

\* C23: a route request passes lookup, validation, URL construction,
\* dispatch and response in this order and never goes back: a request
\* without a usable route is declined whatever its query, a query that
\* fails validation is answered 400 before the base URL is looked at, a
\* missing base URL is answered 500 before any dispatch, and a response
\* from the upstream comes only after the one dispatch.  A request that
\* has ended has exactly one outcome: it was declined with nothing sent,
\* or exactly one response was sent; while the upstream call is pending
\* nothing was sent.  POST /config likewise goes forward through its
\* MongoDB calls and its file write and has sent exactly one response when
\* it ends, whatever the persistence results, and none before.
C23_Stages ==
  /\ [](\A r \in Slots :
          /\ reqs[r].sent <= 1
          /\ reqs[r].pc = "idle" => reqs[r].sent = 0 /\ ~reqs[r].declined
          /\ reqs[r].pc = "awaiting" =>
               /\ reqs[r].sent = 0 /\ reqs[r].resp = Undefined
               /\ ~reqs[r].declined
               /\ reqs[r].calls = 1 /\ Truthy(reqs[r].targetUrl)
          /\ reqs[r].pc = "done" =>
               /\ OutcomeOf(r) \in {"declined", "redirect", "body", "error"}
               /\ reqs[r].declined =>
                    /\ reqs[r].sent = 0 /\ reqs[r].resp = Undefined
                    /\ reqs[r].calls = 0 /\ reqs[r].targetUrl = Undefined
               /\ ~reqs[r].declined => reqs[r].sent = 1
               /\ reqs[r].outcome # Undefined => reqs[r].calls = 1
          /\ (Routed(r) /\ NoUsableRoute(r)) => reqs[r].declined
          /\ (OnGenericRoute(r) /\ ~Satisfied(r)) =>
               Rejected400(r) /\ reqs[r].targetUrl = Undefined
          /\ (OnGenericRoute(r) /\ Satisfied(r) /\ BaseUrlMissing(r)) =>
               /\ reqs[r].pc = "done" /\ reqs[r].resp.status = 500
               /\ reqs[r].calls = 0)
  /\ [](\A p \in Slots :
          /\ posts[p].sent <= 1
          /\ posts[p].sent = 1 <=> posts[p].pc = "done"
          /\ posts[p].resp # Undefined <=> posts[p].pc = "done")
  /\ [][\A r \in Slots :
          /\ \/ ReqRank(reqs'[r]) >= ReqRank(reqs[r])
             \/ reqs[r].pc = "done" /\ reqs'[r] = IdleReq
          /\ \/ PostRank(posts'[r]) >= PostRank(posts[r])
             \/ posts[r].pc = "done" /\ posts'[r] = IdlePost
          /\ reqs'[r].sent >= reqs[r].sent \/ reqs'[r] = IdleReq
          /\ posts'[r].sent >= posts[r].sent \/ posts'[r] = IdlePost]_vars

\* A request that fails validation on a route without a base URL: 400.
C23_Witness ==
  \E r \in Slots :
    /\ OnGenericRoute(r) /\ ~Satisfied(r) /\ BaseUrlMissing(r)
    /\ Rejected400(r) /\ reqs[r].sent = 1

\* A proxy route without a base URL: 500 and no dispatch.
C23_WitnessNoDispatch ==
  \E r \in Slots :
    /\ OnGenericRoute(r) /\ Satisfied(r) /\ BaseUrlMissing(r)
    /\ GetProp(EntryOf(r), K_method) = Str(S_proxy)
    /\ reqs[r].resp.status = 500 /\ reqs[r].calls = 0 /\ reqs[r].sent = 1

\* A request answered from the upstream after it waited, one response.
C23_WitnessAnswered ==
  \E r \in Slots :
    Answered(r) /\ reqs[r].sent = 1 /\ reqs[r].outcome = NoResponse

\* POST /config answered once after MongoDB failed and the file write
\* failed, and once after both went through.
C23_WitnessPostFailed ==
  \E p \in Slots :
    /\ ValidPostAnswered(p) /\ posts[p].sent = 1
    /\ mongoClient /\ enableFileOperations
    /\ ~posts[p].mongoSuccess /\ ~posts[p].fileSuccess

C23_WitnessPostStored ==
  \E p \in Slots :
    /\ ValidPostAnswered(p) /\ posts[p].sent = 1
    /\ posts[p].mongoSuccess /\ posts[p].fileSuccess

(***************************************************************************)
(* Properties of the requests that only read the table                     *)
(***************************************************************************)
\* The configuration: the table in memory (its baseTag with it) and the
\* durable stores.
configuration == <<currentConfig, mongoStore, fileStore>>

\* A step of a route request or of GET /config.
ReadStep == reqs' # reqs \/ gets' # gets

\* C24: route resolution and GET /config do not touch the configuration.
\* Every step of a route request or of GET /config, whatever its outcome,
\* leaves the table in memory, its baseTag, MongoDB and config.json as they
\* were, and leaves every POST /config where it was; a finished exchange
\* leaves nothing behind: its slot is as it was before the first request,
\* and the answer to GET /config is the table in memory alone.
C24_ReadOnly ==
  /\ [][ReadStep =>
          /\ UNCHANGED <<configuration, environment, load, posts, swaps>>
          /\ \A r \in Slots :
               /\ (reqs[r].pc = "done" /\ reqs'[r].pc # "done") =>
                    reqs'[r] = IdleReq
               /\ (gets[r].pc = "done" /\ gets'[r].pc # "done") =>
                    gets'[r] = IdleGet]_vars
  /\ [](\A g \in Slots :
          (gets[g].pc = "done" /\ gets[g].resp # Unauthorized) =>
            (gets[g].swapNo = swaps =>
               gets[g].resp = JsonResponse(200, currentConfig)))

\* GET /config was answered with the table in memory while config.json
\* still holds the table before it (the write of the new one failed).
C24_Witness ==
  \E g \in Slots :
    /\ gets[g].pc = "done"
    /\ gets[g].resp = JsonResponse(200, TableB)
    /\ currentConfig = TableB
    /\ fileStore = ConfigJson(TableA)

\* A route request was answered by the upstream in the same situation.
C24_WitnessRoute ==
  \E r \in Slots :
    /\ Answered(r) /\ reqs[r].table = TableB
    /\ currentConfig = TableB
    /\ fileStore = ConfigJson(TableA)

(***************************************************************************)
(* SpecPosts: administrators posting tables on every connection slot at    *)
(* once, to a server with a MongoDB client and a healthy MongoDB: connect  *)
(* succeeds, and updateOne fails only when the client was closed under    *)
(* it, in which case the driver may still have sent the update or not.     *)
(***************************************************************************)
OverlapPostBodies == {TableA, TableB}

InitPosts == InitConfig /\ mongoClient

HealthyMongoUpdated(p, ok) ==
  /\ ok \/ posts[p].interrupted
  /\ MongoUpdated(p, ok)

NextPosts ==
  \/ \E p \in Slots, b \in OverlapPostBodies : PostConfig(p, b, AdminToken)
  \/ \E p \in Slots : MongoConnected(p, TRUE)
  \/ \E p \in Slots, ok \in BOOLEAN : HealthyMongoUpdated(p, ok)
  \/ \E p \in Slots : MongoClosed(p)
  \/ \E p \in Slots, ok \in BOOLEAN : FileWritten(p, ok)
  \/ \E p \in Slots : PostComplete(p)

SpecPosts == InitPosts /\ [][NextPosts]_vars

(***************************************************************************)
(* Properties of overlapping POST /config requests                         *)
(***************************************************************************)
\* No POST /config is under way.
AllPostsCompleted == \A p \in Slots : posts[p].pc \in {"idle", "done"}

\* The updateOne of slot p has settled.
UpdateSettled(p) == posts[p].pc \in {"mongoClose", "fileWrite", "done"}

\* C25: overlapping valid POST /config requests do not interfere through
\* the one MongoDB client.  With a healthy MongoDB the update of every
\* request succeeds, also when another request closed the client in
\* between, and once all of them have completed MongoDB holds the table
\* that is in memory.
C25_NoInterference ==
  /\ \A p \in Slots : UpdateSettled(p) => posts[p].mongoSuccess
  /\ (AllPostsCompleted /\ swaps > 0) => mongoStore = currentConfig

(***************************************************************************)
(* SpecAuth: the server with admin authentication.  A browser logs in at   *)
(* POST /admin-auth with the right token, a wrong one or none, logs out,   *)
(* and sends GET /config and POST /config with the cookie it holds or with *)
(* a cookie made up.                                                       *)
(***************************************************************************)
InitAuth == InitConfig /\ variant = "auth"

AuthTokens == {AdminToken, Str(S_guess), Undefined}

NextAuth ==
  \/ \E t \in AuthTokens : AdminAuth(t)
  \/ AdminLogout
  \/ \E w \in {jar.cookie, Str(S_guess)} : GetConfig(1, ReqCookie(w))
  \/ GetComplete(1)
  \/ \E b \in StagePostBodies, w \in {jar.cookie, Str(S_guess)} :
       PostConfig(1, b, ReqCookie(w))
  \/ \E ok \in BOOLEAN : MongoConnected(1, ok)
  \/ \E ok \in BOOLEAN : MongoUpdated(1, ok)
  \/ MongoClosed(1)
  \/ \E ok \in BOOLEAN : FileWritten(1, ok)
  \/ PostComplete(1)

SpecAuth == InitAuth /\ [][NextAuth]_vars

(***************************************************************************)
(* Properties of the admin authentication                                  *)
(***************************************************************************)
\* A POST /config arrives on slot p in this step.
PostArrives(p) == posts[p].pc = "idle" /\ posts'[p].pc # "idle"

\* C26: with admin authentication, GET /config and POST /config are
\* served only to a request whose admin cookie equals the admin token;
\* every other request is answered 401; a POST /config that is rejected
\* leaves the table in memory and the durable stores as they were; and
\* POST /admin-auth sets the cookie only when the token submitted equals
\* the admin token.
C26_AdminOnly ==
  /\ [](\A g \in Slots :
          gets[g].pc = "done" =>
            IF gets[g].cookie = AdminToken
            THEN gets[g].resp.status = 200
            ELSE gets[g].resp = Unauthorized)
  /\ [](\A p \in Slots :
          posts[p].pc # "idle" =>
            IF posts[p].cookie = AdminToken
            THEN posts[p].resp # Unauthorized
            ELSE posts[p].pc = "done" /\ posts[p].resp = Unauthorized)
  /\ [][\A p \in Slots :
          (PostArrives(p) /\ posts'[p].cookie # AdminToken) =>
            UNCHANGED <<configuration, swaps>>]_vars
  /\ [](jar.cookie # Undefined => ReqCookie(jar.cookie) = AdminToken)
  /\ [](jar.resp # Undefined /\ jar.resp.kind = "json" =>
          /\ jar.resp.status = 200 <=> jar.token = AdminToken
          /\ jar.resp.status = 401 <=> jar.token # AdminToken)
  /\ [][(jar'.cookie # jar.cookie /\ jar'.cookie # Undefined) =>
          jar'.token = AdminToken /\ jar'.resp.status = 200]_vars

\* GET /config served to the browser that logged in with the token.
C26_Witness ==
  \E g \in Slots :
    /\ gets[g].pc = "done"
    /\ jar.token = AdminToken /\ jar.cookie # Undefined
    /\ gets[g].cookie = ReqCookie(jar.cookie)
    /\ gets[g].resp = JsonResponse(200, currentConfig)

\* A valid table posted with a made-up cookie after a login attempt with a
\* wrong token: 401, no cookie, and the table in memory is the old one.
C26_WitnessRejected ==
  \E p \in Slots :
    /\ posts[p].pc = "done" /\ posts[p].body = TableB
    /\ posts[p].cookie = Str(S_guess)
    /\ posts[p].resp = Unauthorized
    /\ jar.token = Str(S_guess) /\ jar.cookie = Undefined
    /\ jar.resp.status = 401
    /\ currentConfig = TableA /\ swaps = 0

\* A request without any cookie is answered 401.
C26_WitnessNoCookie ==
  \E g \in Slots :
    /\ gets[g].pc = "done" /\ gets[g].cookie = Undefined
    /\ gets[g].resp = Unauthorized

(***************************************************************************)
(* Properties of what the request contributes to the target URL            *)
(***************************************************************************)
\* The names of the parameters the schema of the route of slot r declares.
DeclaredNames(r) == { NameOf(SchemaOf(r)[i]) : i \in 1..Len(SchemaOf(r)) }

\* The names of the query parameters the request of slot r carries.
InboundNames(r) == DOMAIN reqs[r].query.f

\* The specs of the schema of slot r that declare the parameter name.
SpecsNamed(r, name) ==
  { SchemaOf(r)[i] : i \in { j \in 1..Len(SchemaOf(r)) :
                             NameOf(SchemaOf(r)[j]) = name } }

\* C27: on the generic path only the parameters the schema declares reach
\* the target.  Every parameter added to the base URL is declared, and its
\* value is the value the client sent for it, which the schema accepts, or,
\* when the client sent none, the default of the schema; a query parameter
\* of the request that the schema does not declare is not among the
\* parameters added, and its name is nowhere in the target's query unless
\* the base URL itself has it.
C27_OnlyDeclared ==
  \A r \in Slots :
    ConstructionCase(r) =>
      /\ HasTarget(r)
      /\ \A i \in 1..Len(AppendedPairs(r)) :
           LET name  == AppendedPairs(r)[i][1]
               value == AppendedPairs(r)[i][2]
           IN  /\ name \in DeclaredNames(r)
               /\ \E p \in SpecsNamed(r, name) :
                    IF Supplied(r, p)
                    THEN /\ value = GetProp(reqs[r].query, name).s
                         /\ HasAllowed(p) => value \in AllowedOf(p)
                    ELSE /\ HasDefault(p)
                         /\ value = GetProp(p, K_defaultValue).s
      /\ \A name \in InboundNames(r) \ DeclaredNames(r) :
           /\ \A i \in 1..Len(AppendedPairs(r)) : AppendedPairs(r)[i][1] # name
           /\ \A i \in 1..Len(PairsOf(TargetOf(r))) :
                PairsOf(TargetOf(r))[i][1] = name =>
                  \E j \in 1..Len(PairsOf(BaseOf(r))) :
                    PairsOf(BaseOf(r))[j] = PairsOf(TargetOf(r))[i]

\* The request carries keyword and r18, which the schema declares, and
\* extra, which it does not: the target has keyword, r18 and the default
\* of size, and no extra.
C27_Witness ==
  \E r \in Slots :
    /\ ConstructionCase(r) /\ HasTarget(r)
    /\ reqs[r].query = Q_kw_b_extra
    /\ P_extra \in InboundNames(r) \ DeclaredNames(r)
    /\ AppendedPairs(r) =
         << <<P_keyword, V_b>>, <<P_size, V_regular>>, <<P_r18, V_1>> >>
    /\ ~Contains(TargetOf(r), P_extra)

\* A proxy route without schema: the query of the request is left out of
\* the URL of the upstream call.
C27_WitnessNoSchema ==
  \E r \in Slots :
    /\ ConstructionCase(r) /\ reqs[r].calls = 1
    /\ SchemaOf(r) = <<>> /\ InboundNames(r) # {}
    /\ TargetOf(r) = BaseOf(r)

(***************************************************************************)
(* Properties of the special constructions against mode and schema         *)
(***************************************************************************)
\* The 400 of the draw alias for a model that is not allowed.
ModelRejection(r) ==
  /\ Rejected400(r)
  /\ OnSpecialRoute(r, S_special_draw_redirect)
  /\ HasPrefixAt(GetProp(reqs[r].resp.body, K_error).s, 1,
                 Msg_InvalidModel_pre)

\* The 400 answers of the special constructions.
SpecialRejection(r) ==
  \/ reqs[r].resp.body = ErrorBody(Msg_MissingUrl)
  \/ reqs[r].resp.body = ErrorBody(Msg_MissingTags)
  \/ ModelRejection(r)

\* The method the table gives the route of slot r.
MethodOf(r) == GetProp(EntryOf(r), K_method)

\* C28: the special construction of a route overrides its mode and its
\* schema.  A forward route proxies, also when its mode is redirect: with
\* a url parameter its one upstream call goes to that URL, without one it
\* answers 400.  A pollinations route and a draw alias answer with a
\* redirect or 400 and never call the upstream, also when their mode is
\* proxy.  On none of the three does a required or an allowed-values rule
\* of the schema count: a request that breaks such a rule is handled as
\* one that keeps it, and the only 400 are those for a missing url, for
\* missing tags and for the model of the draw alias.
C28_SpecialOverrides ==
  \A r \in Slots :
    /\ OnSpecialRoute(r, S_special_forward) =>
         IF Truthy(GetProp(reqs[r].query, K_url))
         THEN /\ reqs[r].calls = 1
              /\ reqs[r].targetUrl = GetProp(reqs[r].query, K_url)
         ELSE Rejected400(r) /\ reqs[r].resp.body = ErrorBody(Msg_MissingUrl)
    /\ (OnSpecialRoute(r, S_special_pollinations)
          \/ OnSpecialRoute(r, S_special_draw_redirect)) =>
         /\ reqs[r].pc = "done" /\ reqs[r].calls = 0
         /\ reqs[r].outcome = Undefined
         /\ reqs[r].resp.kind = "redirect" \/ Rejected400(r)
         /\ Truthy(GetProp(reqs[r].query, K_tags)) =>
              \/ reqs[r].resp.kind = "redirect"
              \/ ModelRejection(r)
    /\ (\E c \in {S_special_forward, S_special_pollinations,
                  S_special_draw_redirect} : OnSpecialRoute(r, c)) =>
         (Rejected400(r) => SpecialRejection(r))

\* A forward route whose mode is redirect and whose schema requires
\* keyword: the request has a url and no keyword, and is proxied.
C28_Witness ==
  \E r \in Slots :
    /\ OnSpecialRoute(r, S_special_forward)
    /\ MethodOf(r) = Str(S_redirect)
    /\ ~Satisfied(r)
    /\ reqs[r].pc = "awaiting" /\ reqs[r].calls = 1
    /\ reqs[r].targetUrl = Str(U_up)

\* A pollinations route whose mode is proxy, a size outside the allowed
\* values and no keyword: redirect, no call.
C28_WitnessPollinations ==
  \E r \in Slots :
    /\ OnSpecialRoute(r, S_special_pollinations)
    /\ MethodOf(r) = Str(S_proxy)
    /\ reqs[r].query = Q_tags_big
    /\ \E i \in 1..Len(SchemaOf(r)) : OutOfAllowed(r, SchemaOf(r)[i])
    /\ \E i \in 1..Len(SchemaOf(r)) : MissesRequired(r, SchemaOf(r)[i])
    /\ reqs[r].resp.kind = "redirect" /\ reqs[r].calls = 0

\* The same on a draw alias whose mode is proxy.
C28_WitnessDraw ==
  \E r \in Slots :
    /\ OnSpecialRoute(r, S_special_draw_redirect)
    /\ MethodOf(r) = Str(S_proxy)
    /\ reqs[r].query = Q_tags_big
    /\ ~Satisfied(r)
    /\ reqs[r].resp.kind = "redirect" /\ reqs[r].calls = 0

(***************************************************************************)
(* Properties of the login and logout paths                                *)
(***************************************************************************)
\* C29: with admin authentication, GET /admin-login and GET /admin-logout
\* are always left to their own handlers, whatever the table holds: the
\* wildcard handler passes both on, also when the table has a route under
\* the key admin-login or admin-logout.
C29_LoginPathsReserved ==
  \A r \in Slots :
    (variant = "auth" /\ Routed(r) /\ reqs[r].apiKey \in LoginKeys) =>
      /\ reqs[r].declined
      /\ reqs[r].resp = Undefined

(***************************************************************************)
(* SpecBoot: the servers with MongoDB from their start.  loadConfig runs   *)
(* as in SpecLoad; clients send route requests, GET /config and            *)
(* POST /config whenever the server takes them.                            *)
(***************************************************************************)
InitBoot == InitLoad /\ variant # "index"

BootRouteRequests == { <<R_tag, Q_kw_a>>, <<R_absent, Q_none>> }

NextBoot ==
  \/ LoadConfig
  \/ \E ok \in BOOLEAN : LoadConnected(ok)
  \/ \E ok \in BOOLEAN, backupOk \in BOOLEAN : LoadFound(ok, backupOk)
  \/ \E ok \in BOOLEAN : LoadSeeded(ok)
  \/ LoadClosed
  \/ \E rq \in BootRouteRequests : RouteRequest(1, rq[1], rq[2])
  \/ Complete(1)
  \/ GetConfig(1, AdminToken)
  \/ GetComplete(1)
  \/ \E b \in StagePostBodies : PostConfig(1, b, AdminToken)
  \/ \E ok \in BOOLEAN : MongoConnected(1, ok)
  \/ \E ok \in BOOLEAN : MongoUpdated(1, ok)
  \/ MongoClosed(1)
  \/ \E ok \in BOOLEAN : FileWritten(1, ok)
  \/ PostComplete(1)

SpecBoot == InitBoot /\ [][NextBoot]_vars

(***************************************************************************)
(* Properties of the start of the server                                   *)
(***************************************************************************)
\* An exchange is under way on slot s.
Busy(s) ==
  reqs[s].pc # "idle" \/ gets[s].pc # "idle" \/ posts[s].pc # "idle"

\* loadConfig has returned.
LoadCompleted == load.pc = "listening"

\* The value currentConfig is declared with, before loadConfig has run.
Placeholder == EmptyObj

\* C30: the servers with MongoDB take requests only after loadConfig has
\* completed.  While it runs no route request, GET /config or POST /config
\* is handled, so none is handled against the placeholder table the
\* process starts with; and loadConfig never overwrites a table that
\* POST /config installed: every step of loadConfig comes before the first
\* replacement, and after it the table in memory changes only by a
\* POST /config.
C30_AfterLoad ==
  /\ [](\A s \in Slots : Busy(s) => LoadCompleted)
  /\ [](~LoadCompleted => swaps = 0)
  /\ [](\A s \in Slots :
          /\ Routed(s) => reqs[s].table # Placeholder
          /\ gets[s].pc = "done" => gets[s].resp.body # Placeholder)
  /\ [](LoadCompleted => currentConfig # Placeholder)
  /\ [][load' # load => (swaps = 0 /\ \A s \in Slots : ~Busy(s))]_vars
  /\ [][(LoadCompleted /\ currentConfig' # currentConfig) =>
          (swaps' = swaps + 1
             /\ \E p \in Slots : PostArrives(p)
                                   /\ currentConfig' = posts'[p].body)]_vars

\* loadConfig took the table of MongoDB, the server listened, and a
\* POST /config then installed another table, which stays.
C30_Witness ==
  \E p \in Slots :
    /\ LoadCompleted /\ load.doc = TableA
    /\ ValidPostAnswered(p) /\ posts[p].body = TableB
    /\ currentConfig = TableB /\ swaps = 1

\* loadConfig is waiting for MongoDB and no exchange is under way.
C30_WitnessLoading ==
  /\ load.pc = "findOne" /\ currentConfig = Placeholder
  /\ \A s \in Slots : ~Busy(s)

\* The first request after a start without any table: it is resolved
\* against the empty table loadConfig installed, not the placeholder.
C30_WitnessEmptyTable ==
  \E s \in Slots :
    /\ Routed(s) /\ reqs[s].table = EmptyTable /\ swaps = 0
    /\ reqs[s].declined

====
